---- MODULE Spec2Model ----
(***************************************************************************)
(* State-machine model of the auction scraper                              *)
(* (08_AUTOMATION/CLI_Tools/auction_scraper/scrape_auctions.py):           *)
(* the field parsers, the detail extractor, the listing crawl and the      *)
(* resumable store of main().                                              *)
(*                                                                         *)
(* Text is a sequence of one-character strings.  Python's None is the      *)
(* one-element sequence <<"None">> for text values and -1 for numbers      *)
(* (every number the parsers produce is >= 0).  A float is kept in cents.  *)
(* A dict is a function whose DOMAIN is its key set.                       *)
(***************************************************************************)
EXTENDS Integers, Sequences, FiniteSets, TLC

\* ------------------------------------------------------------------------
\* Text helpers
\* ------------------------------------------------------------------------

None == <<"None">>

NoNumber == -1

\* an uncaught exception leaving a function that returns a number
Raised == -2

Digits == {"0", "1", "2", "3", "4", "5", "6", "7", "8", "9"}

DigitValue(c) ==
    CASE c = "0" -> 0 [] c = "1" -> 1 [] c = "2" -> 2 [] c = "3" -> 3
      [] c = "4" -> 4 [] c = "5" -> 5 [] c = "6" -> 6 [] c = "7" -> 7
      [] c = "8" -> 8 [] OTHER -> 9

IsSpace(c) == c \in {" ", "\t", "\n"}

\* Besides single characters a text may hold whole words as one token (a
\* run of letters that no pattern of the program splits).  str.lower() on
\* one token:
LowerTok(c) ==
    CASE c = "TechLiquidators" -> "techliquidators"
      [] c = "Source" -> "source"
      [] c = "Orig" -> "orig"
      [] c = "Retail" -> "retail"
      [] c = "Condition" -> "condition"
      [] c = "MSRP" -> "msrp"
      [] c = "Lot" -> "lot"
      [] c = "Auction" -> "auction"
      [] c = "ID" -> "id"
      [] c = "Weight" -> "weight"
      [] c = "Color" -> "color"
      [] c = "Detail" -> "detail"
      [] c = "Current" -> "current"
      [] c = "Bid" -> "bid"
      [] c = "Value" -> "value"
      [] c = "Next" -> "next"
      [] c = "Page" -> "page"
      [] c = "Prev" -> "prev"
      [] c = "Go" -> "go"
      [] c = "FergusonHome" -> "fergusonhome"
      [] c = "S" -> "s"
      [] c = "D" -> "d"
      [] c = "A1" -> "a1"
      [] c = "A2" -> "a2"
      [] c = "LB" -> "lb"
      [] c = "Lbs" -> "lbs"
      [] OTHER -> c

\* str.lower()
Lower(s) == [i \in 1..Len(s) |-> LowerTok(s[i])]

Punctuation == {"$", ",", ".", ":", "/", "?", "#", "&", "=", "-", "{{", "}}"}

\* \w of Python's re: a digit, an underscore or a letter token
IsWordChar(c) == c \notin Punctuation /\ ~IsSpace(c)

\* the elements of a list
Range(q) == {q[i] : i \in 1..Len(q)}

\* str.startswith and the `in` test on strings
StartsWith(s, p) == Len(s) >= Len(p) /\ SubSeq(s, 1, Len(p)) = p

Contains(s, p) ==
    \E i \in 1..(Len(s) - Len(p) + 1) : SubSeq(s, i, i + Len(p) - 1) = p

\* [0-9,]
IsNumChar(c) == c \in Digits \cup {","}

\* truthiness of a text value: None and "" are falsy
Truthy(t) == t # None /\ t # <<>>

\* str.replace(",", "")
RECURSIVE StripCommas(_)
StripCommas(s) ==
    IF s = <<>> THEN <<>>
    ELSE IF Head(s) = "," THEN StripCommas(Tail(s))
    ELSE <<Head(s)>> \o StripCommas(Tail(s))

\* the value of a digit string, base 10
RECURSIVE DigitsToNat(_)
DigitsToNat(s) ==
    IF s = <<>> THEN 0
    ELSE DigitsToNat(SubSeq(s, 1, Len(s) - 1)) * 10 + DigitValue(s[Len(s)])

\* first index k >= j with s[k] not whitespace (Len(s)+1 when none): \s*
RECURSIVE SkipSpace(_, _)
SkipSpace(s, j) ==
    IF j <= Len(s) /\ IsSpace(s[j]) THEN SkipSpace(s, j + 1) ELSE j

\* first index k >= j with s[k] not in [0-9,] (Len(s)+1 when none): greedy [0-9,]+
RECURSIVE NumRunEnd(_, _)
NumRunEnd(s, j) ==
    IF j <= Len(s) /\ IsNumChar(s[j]) THEN NumRunEnd(s, j + 1) ELSE j

\* first index k >= j with s[k] not a digit: greedy [0-9]+
RECURSIVE DigitRunEnd(_, _)
DigitRunEnd(s, j) ==
    IF j <= Len(s) /\ s[j] \in Digits THEN DigitRunEnd(s, j + 1) ELSE j

\* float(text) of Python for a text over [0-9.]: Raised for the empty
\* string (ValueError), else the value in cents (two decimals at most are
\* kept, which is all CURRENCY_RE captures)
ToFloatCents(s) ==
    LET dot == CHOOSE k \in 1..(Len(s) + 1) :
                   /\ (k <= Len(s) => s[k] = ".")
                   /\ \A m \in 1..(k - 1) : s[m] # "."
        whole == SubSeq(s, 1, dot - 1)
        frac == SubSeq(s, dot + 1, Len(s))
        f1 == IF Len(frac) >= 1 THEN DigitValue(frac[1]) ELSE 0
        f2 == IF Len(frac) >= 2 THEN DigitValue(frac[2]) ELSE 0
    IN  IF whole = <<>> /\ frac = <<>> THEN Raised
        ELSE DigitsToNat(whole) * 100 + f1 * 10 + f2

\* ------------------------------------------------------------------------
\* Field parsers
\* ------------------------------------------------------------------------

\* CURRENCY_RE = \$\s*([0-9,]+(?:\.[0-9]{2})?) matched at the "$" at index i:
\* <<>> when it does not match there, else <<group(1)>>
CurrencyMatchAt(s, i) ==
    LET j == SkipSpace(s, i + 1)
        e == NumRunEnd(s, j)
        hasFrac == /\ e + 2 <= Len(s)
                   /\ s[e] = "."
                   /\ s[e + 1] \in Digits
                   /\ s[e + 2] \in Digits
    IN  IF s[i] # "$" \/ e = j THEN <<>>
        ELSE <<SubSeq(s, j, IF hasFrac THEN e + 2 ELSE e - 1)>>

\* CURRENCY_RE.search(value): the leftmost match
CurrencySearch(s) ==
    LET hits == {i \in 1..Len(s) : CurrencyMatchAt(s, i) # <<>>}
    IN  IF hits = {} THEN <<>>
        ELSE CurrencyMatchAt(s, CHOOSE i \in hits : \A k \in hits : i <= k)

\* parse_currency: None without a match; float(...) is not guarded, so a
\* group of separators only raises ValueError
parse_currency(value) ==
    LET m == CurrencySearch(value)
    IN  IF m = <<>> THEN NoNumber ELSE ToFloatCents(StripCommas(m[1]))

\* INT_RE = \b([0-9,]+)\b on a text without commas: a maximal digit run
\* starting at i with a word boundary on both sides
IntMatchAt(s, i) ==
    LET e == DigitRunEnd(s, i)
    IN  /\ e > i
        /\ (i = 1 \/ ~IsWordChar(s[i - 1]))
        /\ (e > Len(s) \/ ~IsWordChar(s[e]))

\* parse_int: the commas are removed before the search; int() is guarded
parse_int(value) ==
    LET s == StripCommas(value)
        hits == {i \in 1..Len(s) : IntMatchAt(s, i)}
        i0 == CHOOSE i \in hits : \A k \in hits : i <= k
    IN  IF hits = {} THEN NoNumber
        ELSE DigitsToNat(SubSeq(s, i0, DigitRunEnd(s, i0) - 1))

\* WEIGHT_RE = ([0-9,]+(?:\.[0-9]+)?)\s*lb, case-insensitive, matched with
\* the number starting at i: <<>> or <<group(1)>>.  The run [0-9,]+ and the
\* fraction are maximal in every match, since what follows must be
\* whitespace or "lb".
WeightMatchAt(s, i) ==
    LET e == NumRunEnd(s, i)
        f == IF e <= Len(s) /\ s[e] = "." THEN DigitRunEnd(s, e + 1) ELSE e
        unitAt(k) == LET u == SkipSpace(s, k)
                     IN  u <= Len(s) /\ LowerTok(s[u]) \in {"lb", "lbs"}
    IN  IF e = i THEN <<>>
        ELSE IF f > e + 1 /\ unitAt(f) THEN <<SubSeq(s, i, f - 1)>>
        ELSE IF unitAt(e) THEN <<SubSeq(s, i, e - 1)>>
        ELSE <<>>

\* parse_weight_lbs: float() is guarded, a ValueError gives None
parse_weight_lbs(value) ==
    LET hits == {i \in 1..Len(value) : WeightMatchAt(value, i) # <<>>}
        i0 == CHOOSE i \in hits : \A k \in hits : i <= k
        v == ToFloatCents(StripCommas(WeightMatchAt(value, i0)[1]))
    IN  IF hits = {} THEN NoNumber
        ELSE IF v = Raised THEN NoNumber ELSE v

\* str.strip()
RECURSIVE LStrip(_)
LStrip(s) == IF s # <<>> /\ IsSpace(Head(s)) THEN LStrip(Tail(s)) ELSE s

RECURSIVE RStrip(_)
RStrip(s) ==
    IF s # <<>> /\ IsSpace(s[Len(s)]) THEN RStrip(SubSeq(s, 1, Len(s) - 1)) ELSE s

Strip(s) == LStrip(RStrip(s))

\* WHITESPACE_RE.sub(" ", s): every maximal run of whitespace becomes " "
RECURSIVE CollapseSpace(_)
CollapseSpace(s) ==
    IF s = <<>> THEN <<>>
    ELSE IF IsSpace(Head(s)) THEN <<" ">> \o CollapseSpace(LStrip(s))
    ELSE <<Head(s)>> \o CollapseSpace(Tail(s))

normalize_label(label) == CollapseSpace(Lower(Strip(label)))

\* a dedupe_preserve that keeps the last occurrence of each item
RECURSIVE dedupe_keep_last(_)
dedupe_keep_last(values) ==
    IF values = <<>> THEN <<>>
    ELSE IF \E i \in 2..Len(values) : values[i] = Head(values)
         THEN dedupe_keep_last(Tail(values))
         ELSE <<Head(values)>> \o dedupe_keep_last(Tail(values))

\* dedupe_preserve over a list of texts: falsy and blank items dropped,
\* each item stripped, the first occurrence of each kept, in order
RECURSIVE DedupeFrom(_, _, _)
DedupeFrom(values, seen, result) ==
    IF values = <<>> THEN result
    ELSE LET item == Head(values)
             value == Strip(item)
         IN  IF ~Truthy(item) \/ value = <<>> \/ value \in seen
             THEN DedupeFrom(Tail(values), seen, result)
             ELSE DedupeFrom(Tail(values), seen \cup {value}, Append(result, value))

dedupe_preserve(values) == DedupeFrom(values, {}, <<>>)

\* ------------------------------------------------------------------------
\* Dicts
\* ------------------------------------------------------------------------

EmptyDict == [k \in {} |-> None]

\* d[k] = v
Put(d, k, v) == (k :> v) @@ d

\* d.get(k) for a dict of texts
Get(d, k) == IF k \in DOMAIN d THEN d[k] ELSE None

\* d.get(k, "") as lines 364-369 read it
GetOrEmpty(d, k) == IF k \in DOMAIN d THEN d[k] ELSE <<>>

\* d.get(k) for a number-valued key
GetNumber(d, k) == IF k \in DOMAIN d THEN d[k] ELSE NoNumber

\* truthiness of an Optional[float]: None and 0.0 are falsy
NumTruthy(n) == n # NoNumber /\ n # 0

\* a or b
Or(a, b) == IF Truthy(a) THEN a ELSE b

\* len() of a text in characters
RECURSIVE TextLen(_)
TextLen(s) == IF s = <<>> THEN 0 ELSE Len(Head(s)) + TextLen(Tail(s))

\* ------------------------------------------------------------------------
\* Detail extractor
\* ------------------------------------------------------------------------

LABEL_MAP ==
    (<<"lot", " ", "#">> :> "lot_number") @@
    (<<"lot", " ", "number">> :> "lot_number") @@
    (<<"auction", " ", "id">> :> "auction_id") @@
    (<<"condition">> :> "condition") @@
    (<<"location">> :> "location") @@
    (<<"est", ".", " ", "msrp">> :> "msrp") @@
    (<<"msrp">> :> "msrp") @@
    (<<"retail", " ", "value">> :> "retail_value") @@
    (<<"quantity">> :> "quantity") @@
    (<<"units">> :> "quantity") @@
    (<<"pallet", " ", "count">> :> "pallet_count") @@
    (<<"buyer", " ", "premium">> :> "buyer_premium") @@
    (<<"auction", " ", "ends">> :> "auction_end") @@
    (<<"auction", " ", "end">> :> "auction_end") @@
    (<<"bidding", " ", "ends">> :> "auction_end") @@
    (<<"bidding", " ", "starts">> :> "auction_start") @@
    (<<"start", " ", "time">> :> "auction_start") @@
    (<<"end", " ", "time">> :> "auction_end") @@
    (<<"current", " ", "bid">> :> "current_bid") @@
    (<<"reserve">> :> "reserve") @@
    (<<"seller">> :> "seller") @@
    (<<"manifest">> :> "manifest") @@
    (<<"lot", " ", "id">> :> "lot_id") @@
    (<<"total", " ", "items">> :> "total_items") @@
    (<<"weight">> :> "weight")

MaxLabelLen == 48

\* filter_pairs
RECURSIVE filter_pairs(_)
filter_pairs(pairs) ==
    IF pairs = <<>> THEN <<>>
    ELSE LET pair == Head(pairs)
             drop == \/ pair.label = <<>> \/ pair.value = <<>>
                     \/ \E i \in 1..Len(pair.label) :
                            pair.label[i] \in {"?", "{{", "}}"}
                     \/ TextLen(pair.label) > MaxLabelLen
         IN  IF drop THEN filter_pairs(Tail(pairs))
             ELSE <<pair>> \o filter_pairs(Tail(pairs))

\* a normalize_pairs that keeps an unmapped label under its own name
RECURSIVE NormalizeFromKeepingUnmapped(_, _)
NormalizeFromKeepingUnmapped(pairs, normalized) ==
    IF pairs = <<>> THEN normalized
    ELSE LET label == normalize_label(Head(pairs).label)
             key == IF label \in DOMAIN LABEL_MAP THEN LABEL_MAP[label] ELSE label
         IN  IF key \notin DOMAIN normalized
             THEN NormalizeFromKeepingUnmapped(Tail(pairs),
                                               Put(normalized, key, Head(pairs).value))
             ELSE NormalizeFromKeepingUnmapped(Tail(pairs), normalized)

\* normalize_pairs: the first pair mapped to a canonical key wins
RECURSIVE NormalizeFrom(_, _)
NormalizeFrom(pairs, normalized) ==
    IF pairs = <<>> THEN normalized
    ELSE LET label == normalize_label(Head(pairs).label)
         IN  IF label \in DOMAIN LABEL_MAP /\ LABEL_MAP[label] \notin DOMAIN normalized
             THEN NormalizeFrom(Tail(pairs),
                                Put(normalized, LABEL_MAP[label], Head(pairs).value))
             ELSE NormalizeFrom(Tail(pairs), normalized)

normalize_pairs(pairs) == NormalizeFrom(pairs, EmptyDict)

\* A URL is the text <<host, "/", segment, "/", segment, ...>>.
\* extract_techliquidators_id: /detail/([^/]+)/ case-insensitive, the first
\* match, lower-cased
extract_techliquidators_id(url) ==
    LET hits == {i \in 1..(Len(url) - 4) :
                    /\ url[i] = "/" /\ LowerTok(url[i + 1]) = "detail"
                    /\ url[i + 2] = "/" /\ url[i + 3] \notin {"/"}
                    /\ url[i + 4] = "/"}
        i0 == CHOOSE i \in hits : \A k \in hits : i <= k
    IN  IF hits = {} THEN None ELSE <<LowerTok(url[i0 + 3])>>

\* urljoin(base, href) for an absolute href (it starts with a host) and for
\* a path-absolute one (it starts with "/")
urljoin(base, href) ==
    IF href # <<>> /\ href[1] = "/" THEN <<base[1]>> \o href ELSE href

\* A page is the document as the soup readers of lines 142-262 return it:
\*   listing_title   parse_listing_title(soup)
\*   og_title, og_description   get_meta_content(soup, ...)
\*   h1              the first h1's text, None without an h1
\*   images          the og:image contents followed by the listing img srcs
\*   pairs           parse_kv_pairs(soup)
\*   outline         parse_outline_fields(soup)
\*   pricing         parse_pricing_box_attrs(soup)
\*   bid_history     parse_bid_history(soup)
\*   manifest_href   href of a.listing-details__download-manifest-link
\*   ld_json         parse_ld_json(soup), each payload a dict

\* lines 300-319: the ld+json payloads, in order, may replace a placeholder
\* title or description and fill a missing description
RECURSIVE LdFold(_, _, _)
LdFold(payloads, title, description) ==
    IF payloads = <<>> THEN [title |-> title, description |-> description]
    ELSE LET ld_name == Get(Head(payloads), "name")
             ld_description == Get(Head(payloads), "description")
             t1 == IF /\ Truthy(ld_name) /\ Truthy(title)
                      /\ StartsWith(Lower(title), <<"techliquidators">>)
                   THEN ld_name ELSE title
             d1 == IF /\ Truthy(ld_description) /\ Truthy(description)
                      /\ StartsWith(Lower(description), <<"source", " ", "discounted">>)
                   THEN ld_description ELSE description
             d2 == IF Truthy(ld_description) /\ ~Truthy(d1)
                   THEN ld_description ELSE d1
         IN  LdFold(Tail(payloads), t1, d2)

\* lines 268-272 and 300-319
ResolveTitleDescription(page) ==
    LdFold(page.ld_json,
           Or(page.listing_title, Or(page.og_title, page.h1)),
           page.og_description)

\* lines 295-298
ResolveManifestUrl(page, url) ==
    IF Truthy(page.manifest_href) THEN urljoin(url, page.manifest_href) ELSE None

\* lines 321-335
BaseRecord(page, url) ==
    LET td == ResolveTitleDescription(page)
    IN  [url |-> url,
         site |-> <<"techliquidators">>,
         auction_id |-> extract_techliquidators_id(url),
         title |-> td.title,
         description |-> td.description,
         images |-> dedupe_preserve(page.images),
         raw_kv_pairs |-> page.pairs,
         kv_pairs |-> filter_pairs(page.pairs),
         manifest_url |-> ResolveManifestUrl(page, url),
         outline_fields |-> page.outline,
         pricing_attrs |-> page.pricing,
         bid_history |-> page.bid_history,
         ld_json |-> page.ld_json]

\* lines 337-338: every normalized key is assigned, whatever the record
\* already holds under that key
WithNormalized(result, normalized) == normalized @@ result

\* result[k] = source[from] when source.get(from) is truthy (and, with
\* `unless`, when the record does not hold k yet)
PutIfTruthy(result, k, source, from) ==
    IF Truthy(Get(source, from)) THEN Put(result, k, source[from]) ELSE result

\* lines 340-345
WithOutline(result, outline_fields) ==
    LET r1 == IF "condition" \notin DOMAIN result
              THEN PutIfTruthy(result, "condition", outline_fields, <<"condition">>)
              ELSE result
        r2 == IF "warehouse" \notin DOMAIN r1
              THEN PutIfTruthy(r1, "warehouse", outline_fields, <<"warehouse">>)
              ELSE r1
    IN  PutIfTruthy(r2, "lot_size", outline_fields, <<"lot", " ", "size">>)

\* lines 347-359
WithPricing(result, pricing_attrs) ==
    LET r1 == PutIfTruthy(result, "lot_id", pricing_attrs, "listing-name")
        r2 == PutIfTruthy(r1, "items_count", pricing_attrs, "items-count")
        r3 == PutIfTruthy(r2, "bid_count", pricing_attrs, "bid-count")
        r4 == PutIfTruthy(r3, "shipping_method", pricing_attrs, "shipping-method")
        r5 == PutIfTruthy(r4, "subtotal_cents", pricing_attrs, "subtotal-cents")
    IN  PutIfTruthy(r5, "default_shipping_cents", pricing_attrs, "default-shipping-cents")

\* lines 361-362
WithLatestBid(result) ==
    IF result.bid_history # <<>>
    THEN Put(result, "latest_bid", result.bid_history[1]) ELSE result

\* lines 364-369
WithNumeric(result) ==
    [k \in {"msrp_value", "retail_value_value", "current_bid_value",
             "buyer_premium_value", "quantity_value", "pallet_count_value"} |->
        CASE k = "msrp_value" -> parse_currency(GetOrEmpty(result, "msrp"))
          [] k = "retail_value_value" -> parse_currency(GetOrEmpty(result, "retail_value"))
          [] k = "current_bid_value" -> parse_currency(GetOrEmpty(result, "current_bid"))
          [] k = "buyer_premium_value" -> parse_currency(GetOrEmpty(result, "buyer_premium"))
          [] k = "quantity_value" -> parse_int(GetOrEmpty(result, "quantity"))
          [] OTHER -> parse_int(GetOrEmpty(result, "pallet_count"))]
    @@ result

\* lines 371-377
WithOrigRetail(result, listing_title) ==
    IF Truthy(listing_title)
       /\ Contains(Lower(listing_title), <<"orig", ".", " ", "retail">>)
    THEN LET v == parse_currency(listing_title)
             r1 == Put(Put(result, "orig_retail", listing_title), "orig_retail_value", v)
             r2 == IF ~NumTruthy(r1.msrp_value) THEN Put(r1, "msrp_value", v) ELSE r1
         IN  IF ~NumTruthy(r2.retail_value_value)
             THEN Put(r2, "retail_value_value", v) ELSE r2
    ELSE result

\* float(text) of lines 391 and 396 succeeds on digits with at most one "."
IsFloatText(s) ==
    /\ \E i \in 1..Len(s) : s[i] \in Digits
    /\ \A i \in 1..Len(s) : s[i] \in Digits \cup {"."}
    /\ Cardinality({i \in 1..Len(s) : s[i] = "."}) <= 1

\* lines 379-403: the derived fields that are set only when their source
\* is present and parses.  Cents divided by 100 is kept as the cents.
WithDerived(result) ==
    LET put(r, k, src, f(_)) ==
            IF Truthy(Get(r, src)) /\ f(r[src]) # NoNumber
            THEN Put(r, k, f(r[src])) ELSE r
        cents(t) == IF IsFloatText(t) THEN ToFloatCents(t) \div 100 ELSE NoNumber
        r1 == put(result, "weight_lbs", "weight", parse_weight_lbs)
        r2 == put(r1, "total_items_value", "total_items", parse_int)
        r3 == put(r2, "lot_price_value", "subtotal_cents", cents)
        r4 == put(r3, "default_shipping_value", "default_shipping_cents", cents)
    IN  put(r4, "items_count_value", "items_count", parse_int)

\* lines 405-413
BidValues(bid_history) ==
    SelectSeq([i \in 1..Len(bid_history) |-> parse_currency(bid_history[i].bid)],
              LAMBDA v : v # NoNumber)

WithBidFallback(result) ==
    LET bid_values == BidValues(result.bid_history)
    IN  IF bid_values # <<>> /\ ~NumTruthy(result.current_bid_value)
        THEN Put(result, "current_bid_value", bid_values[1]) ELSE result

\* the unguarded parse_currency calls of lines 364-367, 373 and 407: one
\* of them raising ValueError leaves parse_techliquidators_detail
DetailRaises(page, url) ==
    LET r == WithLatestBid(WithPricing(WithOutline(
                 WithNormalized(BaseRecord(page, url),
                                normalize_pairs(filter_pairs(page.pairs))),
                 page.outline), page.pricing))
    IN  \/ \E k \in {"msrp", "retail_value", "current_bid", "buyer_premium"} :
              parse_currency(GetOrEmpty(r, k)) = Raised
        \/ /\ Truthy(page.listing_title)
           /\ Contains(Lower(page.listing_title), <<"orig", ".", " ", "retail">>)
           /\ parse_currency(page.listing_title) = Raised
        \/ \E i \in 1..Len(page.bid_history) :
              parse_currency(page.bid_history[i].bid) = Raised

\* parse_techliquidators_detail(html, url), for a page on which it returns
parse_techliquidators_detail(page, url) ==
    WithBidFallback(WithDerived(WithOrigRetail(WithNumeric(WithLatestBid(
        WithPricing(WithOutline(
            WithNormalized(BaseRecord(page, url),
                           normalize_pairs(filter_pairs(page.pairs))),
            page.outline), page.pricing))), page.listing_title)))

\* ------------------------------------------------------------------------
\* Link classification
\* ------------------------------------------------------------------------

\* TECHLIQUIDATORS_PATTERN = /detail/[^/]+/[^/?#]+ (case-insensitive).search
TECHLIQUIDATORS_PATTERN(link) ==
    \E i \in 1..(Len(link) - 5) :
        /\ link[i] = "/" /\ LowerTok(link[i + 1]) = "detail"
        /\ link[i + 2] = "/" /\ link[i + 3] # "/"
        /\ link[i + 4] = "/" /\ link[i + 5] \notin {"/", "?", "#"}

\* the pagination patterns of build_config for techliquidators:
\* /lots/\? and page=
PaginationPattern(link) ==
    \/ Contains(link, <<"/", "lots", "/", "?">>)
    \/ Contains(link, <<"page", "=">>)

\* find_detail_links / find_pagination_links: the links matching a pattern,
\* in order, repetitions kept
find_detail_links(links) == SelectSeq(links, TECHLIQUIDATORS_PATTERN)

find_pagination_links(links) == SelectSeq(links, PaginationPattern)

\* is_same_host: the netloc is the first token of a URL
is_same_host(base_url, target_url) == base_url[1] = target_url[1]

\* collect_links over the hrefs of the page's anchors
RECURSIVE collect_links(_, _)
collect_links(hrefs, base_url) ==
    IF hrefs = <<>> THEN <<>>
    ELSE LET href == Strip(Head(hrefs))
             abs_url == urljoin(base_url, href)
             rest == collect_links(Tail(hrefs), base_url)
         IN  IF href = <<>> \/ href[1] = "#" THEN rest
             ELSE IF is_same_host(base_url, abs_url) THEN <<abs_url>> \o rest
             ELSE rest

\* The raw-text scans of extract_links_from_html.  A listing page is its
\* anchors' href values and the other texts of the document (scripts); the
\* scans run over the raw document, the href values included.

\* [a-z0-9\\-_/] under re.I, in a raw string: letters, digits, "/" and the
\* range from backslash to underscore; no hyphen
DetailScanChar(c) ==
    \/ c \in {"/", "\\", "]", "^", "_"}
    \/ IsWordChar(c) /\ c \notin {"\"", "'", "<", ">"}

\* [^\"'\\s>] under re.I, in a raw string: anything but the quotes, the
\* backslash, ">" and the letter s
FergusonScanChar(c) == LowerTok(c) \notin {"\"", "'", "\\", "s", ">"}

\* the end of the longest run of tokens satisfying Ok that starts at i
RECURSIVE RunEnd(_, _, _)
RunEnd(Ok(_), text, i) ==
    IF i <= Len(text) /\ Ok(text[i]) THEN RunEnd(Ok, text, i + 1) ELSE i

\* re.findall(r"/detail/[a-z0-9\\-_/]+", html, re.I) on one text
RECURSIVE DetailScan(_, _)
DetailScan(text, i) ==
    IF i + 3 > Len(text) THEN {}
    ELSE IF /\ text[i] = "/" /\ LowerTok(text[i + 1]) = "detail"
            /\ text[i + 2] = "/" /\ DetailScanChar(text[i + 3])
         THEN LET e == RunEnd(DetailScanChar, text, i + 3)
              IN  {SubSeq(text, i, e - 1)} \cup DetailScan(text, e)
         ELSE DetailScan(text, i + 1)

\* re.findall(r"/c/FergusonHome[^\"'\\s>]+", html, re.I) on one text
RECURSIVE FergusonScan(_, _)
FergusonScan(text, i) ==
    IF i + 4 > Len(text) THEN {}
    ELSE IF /\ text[i] = "/" /\ LowerTok(text[i + 1]) = "c" /\ text[i + 2] = "/"
            /\ LowerTok(text[i + 3]) = "fergusonhome"
            /\ FergusonScanChar(text[i + 4])
         THEN LET e == RunEnd(FergusonScanChar, text, i + 4)
              IN  {SubSeq(text, i, e - 1)} \cup FergusonScan(text, e)
         ELSE FergusonScan(text, i + 1)

\* re.findall(r"[?&]page=\\d+", html, re.I) on one text: in a raw string
\* \\d+ is a backslash followed by one or more letters d
RECURSIVE PageScan(_, _)
PageScan(text, i) ==
    IF i + 4 > Len(text) THEN {}
    ELSE IF /\ text[i] \in {"?", "&"} /\ LowerTok(text[i + 1]) = "page"
            /\ text[i + 2] = "=" /\ text[i + 3] = "\\"
            /\ LowerTok(text[i + 4]) = "d"
         THEN {SubSeq(text, i, i + 4)} \cup PageScan(text, i + 5)
         ELSE PageScan(text, i + 1)

\* the texts of the raw document
Html(page) == Range(page.anchors) \cup Range(page.scripts)

\* str.split("?")[0]
BeforeQuery(url) ==
    LET qs == {i \in 1..Len(url) : url[i] = "?"}
    IN  IF qs = {} THEN url
        ELSE SubSeq(url, 1, (CHOOSE i \in qs : \A k \in qs : i <= k) - 1)

\* extract_links_from_html: the matches of the two path scans joined to the
\* base URL, those of the page-number scan appended to the base URL cut at
\* its first "?", collected in a set
extract_links_from_html(page, base_url) ==
    {urljoin(base_url, m) :
        m \in UNION {DetailScan(t, 1) \cup FergusonScan(t, 1) : t \in Html(page)}}
    \cup {BeforeQuery(base_url) \o m : m \in UNION {PageScan(t, 1) : t \in Html(page)}}

\* list(links) of a set: any order
Orderings(S) ==
    {q \in [1..Cardinality(S) -> S] : \A i, j \in DOMAIN q : i # j => q[i] # q[j]}

\* ------------------------------------------------------------------------
\* The store
\* ------------------------------------------------------------------------

SUMMARY_FIELDS ==
    <<"site", "url", "title", "auction_id", "lot_id", "lot_number",
      "current_bid_value", "lot_price_value", "msrp_value",
      "retail_value_value", "items_count_value", "total_items_value",
      "condition", "warehouse", "location", "auction_end", "manifest_url">>

\* the cell entry.get(field, "") of a summary row; a missing field is ""
SummaryCell(entry, field) == IF field \in DOMAIN entry THEN entry[field] ELSE <<>>

\* the elements of a set in some fixed order
RECURSIVE InOrder(_)
InOrder(S) ==
    IF S = {} THEN <<>>
    ELSE LET x == CHOOSE x \in S : TRUE IN <<x>> \o InOrder(S \ {x})

\* the summary with the extra fields of the entries kept as further
\* columns: the union of the keys outside the schema, in some fixed order
write_summary_csv_extras(entries) ==
    LET schema == {SUMMARY_FIELDS[k] : k \in 1..Len(SUMMARY_FIELDS)}
        extras == UNION {DOMAIN entries[i] : i \in 1..Len(entries)} \ schema
    IN  [header |-> SUMMARY_FIELDS \o InOrder(extras),
         rows |-> [i \in 1..Len(entries) |->
                      [f \in schema \cup extras |-> SummaryCell(entries[i], f)]]]

\* write_summary_csv: the header and one row per entry, each row the
\* entry projected on SUMMARY_FIELDS
write_summary_csv(entries) ==
    [header |-> SUMMARY_FIELDS,
     rows |-> [i \in 1..Len(entries) |->
                  [f \in {SUMMARY_FIELDS[k] : k \in 1..Len(SUMMARY_FIELDS)} |->
                      SummaryCell(entries[i], f)]]]

\* the file opened in mode "w" instead: what it held is lost
append_jsonl_truncating(file, entry) == <<entry>>

\* an append_jsonl that writes the line at the head of the file
append_jsonl_first(file, entry) == <<entry>> \o file

\* append_jsonl: the file opened in mode "a", one line written
append_jsonl(file, entry) == Append(file, entry)

\* load_jsonl: every line of the file parses back (each was written by
\* json.dumps); a missing file is the empty list
load_jsonl(file) == file

\* an append_log that writes nothing
append_log_nothing(file, kind, url) == file

\* append_log: one timestamped line; the timestamp is left out
append_log(file, kind, url) == Append(file, [kind |-> kind, url |-> url])

\* ------------------------------------------------------------------------
\* The site: URLs, listing pages, detail pages
\* ------------------------------------------------------------------------

L1 == <<"h", "/", "lots", "/", "?", "auction", "=", "true">>
L2 == <<"h", "/", "lots", "/", "?", "page", "=", "2">>
L3 == <<"h", "/", "lots", "/", "?", "page", "=", "3">>
L4 == <<"h", "/", "lots", "/", "?", "page", "=", "4">>

D1 == <<"h", "/", "detail", "/", "A1", "/", "s1">>
D2 == <<"h", "/", "detail", "/", "A2", "/", "s2">>

\* where a moved lot's URL redirects to; no listing page links to it
Moved == <<"h", "/", "detail", "/", "a9", "/", "s9">>

ListingURLs == {L1, L2, L3, L4}

\* hrefs as the listing pages carry them: path-absolute
Path(url) == Tail(url)

ListingPage(hrefs) == [anchors |-> hrefs, scripts |-> <<>>]

\* a chain of four pages with a cycle and a self-link
SiteChain ==
    [start_urls |-> <<L1>>,
     detail |-> EmptyDict,
     pages |-> (L1 :> ListingPage(<<Path(D1), Path(L2), <<"#", "top">>>>) @@
                L2 :> ListingPage(<<Path(D1), Path(L1), Path(L2), Path(L3), Path(D2)>>) @@
                L3 :> ListingPage(<<Path(L4), <<"other", "/", "detail", "/", "A1", "/", "s1">>>>) @@
                L4 :> ListingPage(<<Path(D2)>>))]

\* two start URLs, one of them given twice; links found by the raw scan
SiteTwoStarts ==
    [start_urls |-> <<L2, L1, L2>>,
     detail |-> EmptyDict,
     pages |-> (L1 :> ListingPage(<<Path(D2), Path(L3)>>) @@
                L2 :> [anchors |-> <<>>,
                       scripts |-> <<<<"{{", "\"">> \o Path(D1) \o <<"\"", ",", "\"">>
                                        \o Path(D2) \o <<"\"", "}}">>>>] @@
                L3 :> ListingPage(<<Path(D2), Path(D1)>>) @@
                L4 :> ListingPage(<<>>))]

\* a single page without lots
SiteEmpty ==
    [start_urls |-> <<L1>>,
     detail |-> EmptyDict,
     pages |-> [u \in ListingURLs |-> ListingPage(<<>>)]]

\* a first page linking to two further pages
SiteFan ==
    [start_urls |-> <<L1>>,
     detail |-> EmptyDict,
     pages |-> (L1 :> ListingPage(<<Path(D1), Path(L2), Path(L3)>>) @@
                L2 :> ListingPage(<<Path(D2)>>) @@
                L3 :> ListingPage(<<Path(D2), Path(D1), Path(L4)>>) @@
                L4 :> ListingPage(<<>>))]

\* two pages found on the first page, a fourth found on the second
SiteTree ==
    [start_urls |-> <<L1>>,
     detail |-> EmptyDict,
     pages |-> (L1 :> ListingPage(<<Path(L2), Path(L3)>>) @@
                L2 :> ListingPage(<<Path(L4), Path(D1)>>) @@
                L3 :> ListingPage(<<Path(D2)>>) @@
                L4 :> ListingPage(<<>>))]

Sites == {SiteChain, SiteTwoStarts, SiteEmpty, SiteFan, SiteTree}

EmptyPage ==
    [listing_title |-> None, og_title |-> None, og_description |-> None,
     h1 |-> None, images |-> <<>>, pairs |-> <<>>, outline |-> EmptyDict,
     pricing |-> EmptyDict, bid_history |-> <<>>, manifest_href |-> None,
     ld_json |-> <<>>]

Pair(label, value) == [label |-> label, value |-> value]

\* the detail pages the server answers with in the run specifications
PlainPage == [EmptyPage EXCEPT !.og_title = <<"Lot">>]

WeightPage ==
    [EmptyPage EXCEPT !.og_title = <<"Lot">>,
                      !.pairs = <<Pair(<<"Weight">>, <<"4", "2", " ", "lb">>)>>]

\* est. msrp given as "$," : the numeric token holds separators only
BadPricePage ==
    [EmptyPage EXCEPT !.og_title = <<"Lot">>,
                      !.pairs = <<Pair(<<"MSRP">>, <<"$", ",">>)>>]

Response(final_url, page) == [final_url |-> final_url, page |-> page]

\* the site of the run specification: two listing pages linking to each
\* other, one lot on each.  The first lot's URL may redirect, the second
\* lot's page may carry a weight or a malformed price.  detail[url] is what
\* the server may answer to a fetch of url that succeeds.
SiteRun ==
    [start_urls |-> <<L1>>,
     detail |-> (D1 :> {Response(D1, PlainPage), Response(Moved, PlainPage)} @@
                 D2 :> {Response(D2, WeightPage), Response(D2, BadPricePage)}),
     pages |-> (L1 :> ListingPage(<<Path(D1), Path(L2)>>) @@
                L2 :> ListingPage(<<Path(D2), Path(L1)>>))]

RunSites == {SiteRun}

\* --year of the runs followed
RunYear == "2026"

\* the --max-pages values of the run specification
RunMaxPages == {0, 1}

\* ------------------------------------------------------------------------
\* State
\* ------------------------------------------------------------------------

\* how many runs of main() a behaviour holds
MaxRuns == 2

\* the largest --max-pages and --max-auctions given (0: the option is absent)
MaxPagesArg == 2

MaxAuctionsArg == 1

VARIABLES
    index_jsonl,     \* the file index.jsonl: its entries, in order
    item_files,      \* the per-item directories: path -> raw.html, auction.json, auction.csv
    index_csv,       \* the file index.csv: header and rows
    scrape_log,      \* the file scrape.log: its lines
    runs,            \* runs of main() started so far
    pc,              \* where main() stands: idle, crawl, crawl_done, detail, done, crashed
    args,            \* resume, max_pages, max_auctions of the run
    site,            \* start URLs of the config and the listing pages served
    queue,           \* crawl_listing_pages: queue
    visited,         \* crawl_listing_pages: visited
    crawl_urls,      \* crawl_listing_pages: detail_urls
    terminal,        \* how the crawl loop ended: Exhausted or BudgetReached
    detail_urls,     \* main: detail_urls
    existing_entries,\* main: existing_entries
    existing_urls,   \* main: existing_urls
    new_entries,     \* main: new_entries
    idx,             \* main: position of the for loop in detail_urls
    exit_status,     \* -1 while running, 0 returned, 1 left by an exception
    listing_fetches, \* observed: the listing fetches of the run, [url, ok]
    enqueued,        \* observed: every URL put on the queue, in the order put
    listing_sleeps,  \* observed: per listing fetch, whether time.sleep followed it
    detail_fetches,  \* observed: the detail fetches of the run, [url, ok]
    prev,            \* observed: the run before this one
    only_resume,     \* observed: every run so far was given --resume
    parse_in,        \* a function checked alone: its input
    parse_out,       \* a function checked alone: what it returned
    qb_pc,           \* quickbidz_recovery main(): idle, first, aggregate, done, crashed
    qb_in,           \* quickbidz_recovery: --pages and the pages the server holds
    qb_cards,        \* quickbidz_recovery main: all_cards
    qb_fetches,      \* observed: the listing pages fetched, [page, ok]
    qb_out,          \* quickbidz_recovery: the report printed and the log rows
    fp_pc,           \* fetch_pages: idle, loop, returned, raised
    fp_in,           \* fetch_pages: start_url, max_pages and what the server answers
    fp_url,          \* fetch_pages: url
    fp_seen,         \* fetch_pages: seen
    fp_pages,        \* fetch_pages: pages
    fp_requests      \* observed: the URLs given to session.get, in order

vars ==
    <<index_jsonl, index_csv, scrape_log, runs, pc, args, site, queue, visited,
      crawl_urls, terminal, detail_urls, existing_entries, existing_urls,
      new_entries, idx, exit_status, listing_fetches, detail_fetches, prev,
      only_resume, parse_in, parse_out, qb_pc, qb_in, qb_cards, qb_fetches, qb_out,
      enqueued, listing_sleeps, item_files, fp_pc, fp_in, fp_url, fp_seen, fp_pages,
      fp_requests>>

parse == <<parse_in, parse_out>>

quickbidz == <<qb_pc, qb_in, qb_cards, qb_fetches, qb_out>>

orders == <<fp_pc, fp_in, fp_url, fp_seen, fp_pages, fp_requests>>

disk == <<index_jsonl, index_csv, scrape_log, item_files>>

crawl_state ==
    <<queue, visited, crawl_urls, terminal, listing_fetches, enqueued, listing_sleeps>>

detail_state ==
    <<detail_urls, existing_entries, existing_urls, new_entries, idx, detail_fetches>>

NoArgs == [resume |-> FALSE, max_pages |-> 0, max_auctions |-> 0, delay |-> 0]

\* prev.clean: there was a run before this one, with --resume, that
\* returned and whose detail fetches all succeeded; prev.urls: its detail_urls
NoPrev == [clean |-> FALSE, urls |-> <<>>]

NotParsed == [status |-> "none", data |-> EmptyDict]

\* the state before the first run
Idle ==
    /\ index_jsonl = <<>>
    /\ item_files = EmptyDict
    /\ index_csv = [header |-> <<>>, rows |-> <<>>]
    /\ scrape_log = <<>>
    /\ runs = 0
    /\ pc = "idle"
    /\ args = NoArgs
    /\ site = SiteEmpty
    /\ queue = <<>>
    /\ visited = {}
    /\ crawl_urls = <<>>
    /\ terminal = "none"
    /\ detail_urls = <<>>
    /\ existing_entries = <<>>
    /\ existing_urls = {}
    /\ new_entries = <<>>
    /\ idx = 1
    /\ exit_status = -1
    /\ listing_fetches = <<>>
    /\ enqueued = <<>>
    /\ listing_sleeps = <<>>
    /\ detail_fetches = <<>>
    /\ prev = NoPrev
    /\ only_resume = TRUE
    /\ qb_pc = "idle"
    /\ qb_in = [has_pages |-> FALSE, pages |-> 0, html |-> <<>>]
    /\ qb_cards = <<>>
    /\ qb_fetches = <<>>
    /\ qb_out = [report |-> <<>>, log |-> <<>>]
    /\ fp_pc = "idle"
    /\ fp_in = [start_url |-> None, max_pages |-> 0, server |-> EmptyDict]
    /\ fp_url = None
    /\ fp_seen = {}
    /\ fp_pages = <<>>
    /\ fp_requests = <<>>

Init ==
    /\ Idle
    /\ parse_in = [page |-> EmptyPage, url |-> D1]
    /\ parse_out = NotParsed

\* ------------------------------------------------------------------------
\* main(): the run
\* ------------------------------------------------------------------------

\* lines 751-776 and 662-664: a run starts with its arguments; the site
\* serves some listing graph
Start(resumes, pages_args, auctions_args, delay_args, sites) ==
    /\ pc \in {"idle", "done", "crashed"}
    /\ runs < MaxRuns
    /\ \E r \in resumes, mp \in pages_args, ma \in auctions_args, dl \in delay_args,
          s \in sites :
          /\ args' = [resume |-> r, max_pages |-> mp, max_auctions |-> ma, delay |-> dl]
          /\ site' = s
          /\ queue' = s.start_urls
          /\ enqueued' = s.start_urls
          /\ listing_sleeps' = <<>>
          /\ only_resume' = (only_resume /\ r)
    /\ prev' = IF /\ pc = "done" /\ args.resume
                  /\ \A i \in 1..Len(detail_fetches) : detail_fetches[i].ok
               THEN [clean |-> TRUE, urls |-> detail_urls]
               ELSE NoPrev
    /\ runs' = runs + 1
    /\ pc' = "crawl"
    /\ visited' = {}
    /\ crawl_urls' = <<>>
    /\ terminal' = "none"
    /\ listing_fetches' = <<>>
    /\ detail_urls' = <<>>
    /\ existing_entries' = <<>>
    /\ existing_urls' = {}
    /\ new_entries' = <<>>
    /\ idx' = 1
    /\ detail_fetches' = <<>>
    /\ exit_status' = -1
    /\ UNCHANGED <<disk, parse, quickbidz, orders>>

\* line 717: --delay is left at its default in the runs followed whole
StartRun == Start(BOOLEAN, RunMaxPages, 0..MaxAuctionsArg, {1}, RunSites)

\* a run of which only the listing crawl is followed
StartCrawl == Start({FALSE}, 0..MaxPagesArg, 0..MaxAuctionsArg, {0, 1}, Sites)

\* lines 666 and 689: the queue is empty, the loop ends
CrawlExhausted ==
    /\ pc = "crawl"
    /\ queue = <<>>
    /\ terminal' = "Exhausted"
    /\ pc' = "crawl_done"
    /\ UNCHANGED <<disk, runs, args, site, queue, visited, crawl_urls,
                   listing_fetches, enqueued, listing_sleeps, detail_state, exit_status, prev, only_resume,
                   parse, quickbidz, orders>>

\* a queue extended by the URLs that are neither visited nor queued
QueueExtendUnseen(q, found, seen) ==
    q \o dedupe_preserve(SelectSeq(found, LAMBDA l : l \notin seen \cup Range(q)))

\* a queue to which the links found are put at the front
QueueExtendLeft(q, found, seen) == found \o q

\* line 684: queue.extend(...) of every pagination link found
QueueExtend(q, found, seen) == q \o found

\* a visited set that is never written
VisitedUnchanged(v, url) == v

\* line 670: visited.add(url)
VisitedAdd(v, url) == v \cup {url}

\* a visited URL put back at the end of the queue
RequeueVisited(q) == Append(Tail(q), Head(q))

\* lines 667-669: the URL popped is dropped when it was visited before
DiscardVisited(q) == Tail(q)

\* lines 667-669: a URL visited before is dropped
CrawlSkipVisited ==
    /\ pc = "crawl"
    /\ queue # <<>>
    /\ Head(queue) \in visited
    /\ queue' = DiscardVisited(queue)
    /\ UNCHANGED <<disk, runs, pc, args, site, visited, crawl_urls, terminal,
                   listing_fetches, enqueued, listing_sleeps, detail_state, exit_status, prev, only_resume,
                   parse, quickbidz, orders>>

\* the budget test taken one page early
OverBudgetEarly(max_pages, nvisited) == max_pages # 0 /\ nvisited >= max_pages

\* the test of line 671 once url is in visited
OverBudget(max_pages, nvisited) == max_pages # 0 /\ nvisited > max_pages

\* lines 667-672: the URL is marked visited and the budget is exceeded
CrawlBudgetBreak ==
    /\ pc = "crawl"
    /\ queue # <<>>
    /\ Head(queue) \notin visited
    /\ OverBudget(args.max_pages, Cardinality(visited \cup {Head(queue)}))
    /\ queue' = Tail(queue)
    /\ visited' = VisitedAdd(visited, Head(queue))
    /\ terminal' = "BudgetReached"
    /\ pc' = "crawl_done"
    /\ UNCHANGED <<disk, runs, args, site, crawl_urls, listing_fetches, enqueued,
                   listing_sleeps,
                   detail_state, exit_status, prev, only_resume, parse, quickbidz, orders>>

\* the exception of a failed listing fetch left uncaught
AfterListingFailureAbort == "crashed"

\* what the loop does after a failed listing fetch (lines 676-678): the
\* next position of main()
AfterListingFailure == "crawl"

\* lines 676-678: the except branch ends in continue, the sleep of lines
\* 686-687 is not reached
SleepAfterFailure(delay) == FALSE

\* lines 686-687: if delay: time.sleep(delay)
SleepAfterPage(delay) == delay # 0

\* lines 667-678: the fetch of the listing page fails
CrawlFetchFail ==
    /\ pc = "crawl"
    /\ queue # <<>>
    /\ Head(queue) \notin visited
    /\ ~OverBudget(args.max_pages, Cardinality(visited \cup {Head(queue)}))
    /\ queue' = Tail(queue)
    /\ visited' = VisitedAdd(visited, Head(queue))
    /\ scrape_log' = append_log(scrape_log, "listing_fetch_failed", Head(queue))
    /\ listing_fetches' = Append(listing_fetches, [url |-> Head(queue), ok |-> FALSE])
    /\ listing_sleeps' = Append(listing_sleeps, SleepAfterFailure(args.delay))
    /\ pc' = AfterListingFailure
    /\ UNCHANGED <<index_jsonl, index_csv, item_files, runs, args, site, crawl_urls, terminal,
                   enqueued, detail_state, exit_status, prev, only_resume, parse, quickbidz, orders>>

\* lines 667-687: the page is fetched, its links are classified
CrawlFetchOk ==
    /\ pc = "crawl"
    /\ queue # <<>>
    /\ Head(queue) \notin visited
    /\ ~OverBudget(args.max_pages, Cardinality(visited \cup {Head(queue)}))
    /\ Head(queue) \in DOMAIN site.pages
    /\ LET url == Head(queue)
           page == site.pages[url]
       IN  \E scanned \in Orderings(extract_links_from_html(page, url)) :
              LET links == collect_links(page.anchors, url) \o scanned
              IN  /\ crawl_urls' = crawl_urls \o find_detail_links(links)
                  /\ queue' = QueueExtend(Tail(queue), find_pagination_links(links),
                                          visited \cup {url})
                  /\ enqueued' = enqueued \o find_pagination_links(links)
    /\ visited' = VisitedAdd(visited, Head(queue))
    /\ listing_fetches' = Append(listing_fetches, [url |-> Head(queue), ok |-> TRUE])
    /\ listing_sleeps' = Append(listing_sleeps, SleepAfterPage(args.delay))
    /\ UNCHANGED <<disk, runs, pc, args, site, terminal, detail_state,
                   exit_status, prev, only_resume, parse, quickbidz, orders>>

\* [a-z0-9] of slugify, on a token already lower-cased
IsSlugChar(c) == c \notin Punctuation \cup {"!", "_", "'", "\""} /\ ~IsSpace(c)

\* re.sub(r"[^a-z0-9]+", "-", value) followed by re.sub(r"-+", "-", value)
RECURSIVE SlugRuns(_)
SlugRuns(s) ==
    IF s = <<>> THEN <<>>
    ELSE LET rest == SlugRuns(Tail(s))
         IN  IF IsSlugChar(Head(s)) THEN <<Head(s)>> \o rest
             ELSE IF rest # <<>> /\ Head(rest) = "-" THEN rest
             ELSE <<"-">> \o rest

\* str.strip("-")
StripDash(s) ==
    LET keep == {i \in 1..Len(s) : s[i] # "-"}
    IN  IF keep = {} THEN <<>>
        ELSE SubSeq(s, CHOOSE i \in keep : \A k \in keep : i <= k,
                       CHOOSE i \in keep : \A k \in keep : i >= k)

\* lines 90-94
slugify(value) == StripDash(SlugRuns(Lower(Strip(value))))

\* final_url.split("/")[-1]
LastSegment(url) ==
    LET slashes == {i \in 1..Len(url) : url[i] = "/"}
    IN  IF slashes = {} THEN url
        ELSE SubSeq(url, (CHOOSE i \in slashes : \A k \in slashes : i >= k) + 1, Len(url))

\* lines 562-569: base_dir/site/year/site[_item_id][_slug]
build_output_dir(base_dir, site_name, year, item_id, slug) ==
    base_dir \o <<"/", site_name, "/", year, "/", site_name>>
        \o (IF Truthy(item_id) THEN <<"_">> \o item_id ELSE <<>>)
        \o (IF slug # <<>> THEN <<"_">> \o slug ELSE <<>>)

\* lines 804-811 of main(): the output directory of an item
OutDir(data, final_url, year) ==
    LET item_id == Or(Get(data, "auction_id"), extract_techliquidators_id(final_url))
        slug == slugify(Or(Get(data, "title"), LastSegment(final_url)))
    IN  build_output_dir(<<"out">>, "techliquidators", year, item_id, slug)

\* line 814: raw_path
RawPath(data, final_url, year) == OutDir(data, final_url, year) \o <<"/", "raw.html">>

\* the files of one item directory: <<>> for a file that does not exist,
\* <<content>> for one that does
NoFiles == [raw |-> <<>>, json |-> <<>>, csv |-> <<>>]

FilesAt(files, dir) == IF dir \in DOMAIN files THEN files[dir] ELSE NoFiles

\* lines 812-823: raw.html, auction.json and auction.csv are written in
\* this order, each opened in mode "w"; upto is how many of the three
\* writes were made
WriteItem(files, dir, page, data, upto) ==
    LET old == FilesAt(files, dir)
        new == [raw |-> IF upto >= 1 THEN <<page>> ELSE old.raw,
                json |-> IF upto >= 2 THEN <<data>> ELSE old.json,
                csv |-> IF upto >= 3 THEN <<data>> ELSE old.csv]
    IN  (dir :> new) @@ files


\* a list left uncut
CutNothing(urls, max_auctions) == urls

\* detail_urls[: max_auctions] of lines 779-780
CutAuctions(urls, max_auctions) ==
    IF max_auctions # 0 /\ Len(urls) > max_auctions
    THEN SubSeq(urls, 1, max_auctions) ELSE urls

\* line 786: the URLs the log holds
ExistingUrls(entries) ==
    {entries[i].url : i \in {k \in 1..Len(entries) : Truthy(Get(entries[k], "url"))}}

\* the detail loop entered while the crawl is still under way
CrawlReturnedOrRunning(p) == p \in {"crawl", "crawl_done"}

\* line 778: main() goes on when crawl_listing_pages has returned
CrawlReturned(p) == p = "crawl_done"

\* lines 689 and 778-788: the crawl returns, the list is cut, the log is read
LoadIndex ==
    /\ CrawlReturned(pc)
    /\ detail_urls' = CutAuctions(dedupe_preserve(crawl_urls), args.max_auctions)
    /\ existing_entries' = load_jsonl(index_jsonl)
    /\ existing_urls' = ExistingUrls(load_jsonl(index_jsonl))
    /\ new_entries' = <<>>
    /\ idx' = 1
    /\ pc' = "detail"
    /\ UNCHANGED <<disk, runs, args, site, crawl_state, exit_status,
                   detail_fetches, prev, only_resume, parse, quickbidz, orders>>

\* line 791: the resume test on a discovered URL
SkipOnResume(resume, url, urls) == resume /\ url \in urls

\* lines 790-792: a URL the log holds is skipped in resume mode
DetailSkip ==
    /\ pc = "detail"
    /\ idx <= Len(detail_urls)
    /\ SkipOnResume(args.resume, detail_urls[idx], existing_urls)
    /\ idx' = idx + 1
    /\ UNCHANGED <<disk, runs, pc, args, site, crawl_state, detail_urls,
                   existing_entries, existing_urls, new_entries, exit_status,
                   detail_fetches, prev, only_resume, parse, quickbidz, orders>>

\* lines 794-798: the fetch of the detail page fails
DetailFetchFail ==
    /\ pc = "detail"
    /\ idx <= Len(detail_urls)
    /\ ~SkipOnResume(args.resume, detail_urls[idx], existing_urls)
    /\ scrape_log' = append_log(scrape_log, "detail_fetch_failed", detail_urls[idx])
    /\ detail_fetches' = Append(detail_fetches, [url |-> detail_urls[idx], ok |-> FALSE])
    /\ idx' = idx + 1
    /\ UNCHANGED <<index_jsonl, index_csv, item_files, runs, pc, args, site, crawl_state,
                   detail_urls, existing_entries, existing_urls, new_entries,
                   exit_status, prev, only_resume, parse, quickbidz, orders>>

\* what the server may answer to a detail fetch that succeeds
Responses(url) == IF url \in DOMAIN site.detail THEN site.detail[url] ELSE {}

\* lines 794-837: the page is fetched, extracted, written and logged.
\* --manifest is not given.
DetailStore ==
    /\ pc = "detail"
    /\ idx <= Len(detail_urls)
    /\ ~SkipOnResume(args.resume, detail_urls[idx], existing_urls)
    /\ \E response \in Responses(detail_urls[idx]) :
          /\ ~DetailRaises(response.page, response.final_url)
          /\ LET data == parse_techliquidators_detail(response.page, response.final_url)
                 dir == OutDir(data, response.final_url, RunYear)
             IN  /\ item_files' = WriteItem(item_files, dir, response.page, data, 3)
                 /\ index_jsonl' = append_jsonl(index_jsonl, data)
                 /\ new_entries' = Append(new_entries, data)
    /\ existing_urls' = existing_urls \cup {detail_urls[idx]}
    /\ detail_fetches' = Append(detail_fetches, [url |-> detail_urls[idx], ok |-> TRUE])
    /\ idx' = idx + 1
    /\ UNCHANGED <<index_csv, scrape_log, runs, pc, args, site, crawl_state,
                   detail_urls, existing_entries, exit_status, prev, only_resume, parse, quickbidz, orders>>

\* lines 794-801: the page is fetched and parse_detail raises ValueError;
\* nothing in main() catches it
DetailCrash ==
    /\ pc = "detail"
    /\ idx <= Len(detail_urls)
    /\ ~SkipOnResume(args.resume, detail_urls[idx], existing_urls)
    /\ \E response \in Responses(detail_urls[idx]) :
          DetailRaises(response.page, response.final_url)
    /\ detail_fetches' = Append(detail_fetches, [url |-> detail_urls[idx], ok |-> TRUE])
    /\ pc' = "crashed"
    /\ exit_status' = 1
    /\ UNCHANGED <<disk, runs, args, site, crawl_state, detail_urls,
                   existing_entries, existing_urls, new_entries, idx, prev, only_resume, parse, quickbidz, orders>>

\* an interruption that comes only once the log entry is appended
InterruptAppends(file, entry) == Append(file, entry)

\* lines 832: append_jsonl is not reached by a run interrupted before it
InterruptedIndex(file, entry) == file

\* lines 799-831: the process is ended (a signal, an error of a write)
\* after the page was fetched and extracted and upto of the three item
\* files were written, before append_jsonl of line 832
DetailInterrupt ==
    /\ pc = "detail"
    /\ idx <= Len(detail_urls)
    /\ ~SkipOnResume(args.resume, detail_urls[idx], existing_urls)
    /\ \E response \in Responses(detail_urls[idx]), upto \in 0..3 :
          /\ ~DetailRaises(response.page, response.final_url)
          /\ LET data == parse_techliquidators_detail(response.page, response.final_url)
                 dir == OutDir(data, response.final_url, RunYear)
             IN  /\ item_files' = WriteItem(item_files, dir, response.page, data, upto)
                 /\ index_jsonl' = InterruptedIndex(index_jsonl, data)
    /\ detail_fetches' = Append(detail_fetches, [url |-> detail_urls[idx], ok |-> TRUE])
    /\ pc' = "crashed"
    /\ exit_status' = 1
    /\ UNCHANGED <<index_csv, scrape_log, runs, args, site, crawl_state, detail_urls,
                   existing_entries, existing_urls, new_entries, idx, prev,
                   only_resume, parse, quickbidz, orders>>

\* the summary written from the entries of this run only
CombinedEntriesNewOnly(existing, new) == new

\* line 839
CombinedEntries(existing, new) == existing \o new

\* line 843
ReturnStatus(fetches) == 0

\* lines 839-843: the summary is regenerated and main() returns
Finish ==
    /\ pc = "detail"
    /\ idx > Len(detail_urls)
    /\ index_csv' = write_summary_csv(CombinedEntries(existing_entries, new_entries))
    /\ exit_status' = ReturnStatus(listing_fetches)
    /\ pc' = "done"
    /\ UNCHANGED <<index_jsonl, scrape_log, item_files, runs, args, site, crawl_state,
                   detail_state, prev, only_resume, parse, quickbidz, orders>>

Next ==
    \/ StartRun
    \/ CrawlExhausted
    \/ CrawlSkipVisited
    \/ CrawlBudgetBreak
    \/ CrawlFetchFail
    \/ CrawlFetchOk
    \/ LoadIndex
    \/ DetailSkip
    \/ DetailFetchFail
    \/ DetailStore
    \/ DetailCrash
    \/ Finish

Spec == Init /\ [][Next]_vars

\* the runs of main() with interruptions of the detail loop
NextStore == Next \/ DetailInterrupt

SpecStore == Init /\ [][NextStore]_vars

\* the listing crawl alone, over every site
NextCrawl ==
    \/ StartCrawl
    \/ LoadIndex
    \/ CrawlExhausted
    \/ CrawlSkipVisited
    \/ CrawlBudgetBreak
    \/ CrawlFetchFail
    \/ CrawlFetchOk

SpecCrawl == Init /\ [][NextCrawl]_vars

\* the steps of the loop of lines 666-687
CrawlLoop ==
    \/ CrawlExhausted
    \/ CrawlSkipVisited
    \/ CrawlBudgetBreak
    \/ CrawlFetchFail
    \/ CrawlFetchOk

\* the loop runs on: every fetch returns or raises within its timeout
\* (line 498) and the delay of line 687 is finite
SpecCrawlLive == SpecCrawl /\ WF_vars(CrawlLoop)

\* ------------------------------------------------------------------------
\* The extractor alone, over a set of pages
\* ------------------------------------------------------------------------

ListingTitles == {None, <<"Pallet">>, <<"TechLiquidators", " ", "Lot">>}

OgTitles == {None, <<"Og">>}

LdJsons == {<<>>, <<[name |-> <<"Ld">>, description |-> <<"LdDesc">>]>>}

OgDescriptions == {None, <<"Source", " ", "Discounted", " ", "x">>}

PairLists ==
    {<<>>,
     <<Pair(<<"Condition">>, <<"New">>)>>,
     <<Pair(<<"Color">>, <<"red">>), Pair(<<"Lot", " ", "ID">>, <<"L7">>)>>}

Outlines ==
    {EmptyDict,
     (<<"condition">> :> <<"Used">>) @@ (<<"warehouse">> :> <<"W1">>)}

Pricings == {EmptyDict, ("listing-name" :> <<"L9">>)}

ManifestHrefs == {None, <<"/", "m", ".", "xlsx">>}

ParsePages ==
    {[EmptyPage EXCEPT !.listing_title = lt, !.og_title = og, !.ld_json = ld,
                       !.og_description = od, !.pairs = ps, !.outline = ol,
                       !.pricing = pr, !.manifest_href = mh] :
        lt \in ListingTitles, og \in OgTitles, ld \in LdJsons,
        od \in OgDescriptions, ps \in PairLists, ol \in Outlines,
        pr \in Pricings, mh \in ManifestHrefs}

InitParse ==
    /\ Idle
    /\ parse_in \in [page : ParsePages, url : {D1}]
    /\ parse_out = NotParsed

\* config.parse_detail(html, final_url) of line 801
Extract ==
    /\ parse_out = NotParsed
    /\ parse_out' =
          IF DetailRaises(parse_in.page, parse_in.url)
          THEN [status |-> "raised", data |-> EmptyDict]
          ELSE [status |-> "ok",
                data |-> parse_techliquidators_detail(parse_in.page, parse_in.url)]
    /\ UNCHANGED <<disk, runs, pc, args, site, crawl_state, detail_state,
                   exit_status, prev, only_resume, parse_in, quickbidz, orders>>

NextParse == Extract

SpecParse == InitParse /\ [][NextParse]_vars

\* ------------------------------------------------------------------------
\* The per-item output directory, checked alone
\* ------------------------------------------------------------------------

\* a second lot page of the auction of D1, and D1 reached with a query
D1b == <<"h", "/", "detail", "/", "A1", "/", "s7">>

D1q == D1 \o <<"?", "ref", "=", "1">>

PathURLs == {D1, D2, D1b, D1q}

PathPages == {EmptyPage, PlainPage, [EmptyPage EXCEPT !.og_title = <<"Lot", "!">>]}

\* --year
Years == {"2025", "2026"}

PathItems == [url : PathURLs, page : PathPages, year : Years]

InitPaths ==
    /\ Idle
    /\ parse_in \in {in \in [a : PathItems, b : PathItems] : in.a.url # in.b.url}
    /\ parse_out = NotParsed

\* lines 799-814 for two detail URLs: where the raw.html of each is written
StorePaths ==
    /\ parse_out = NotParsed
    /\ parse_out' =
          [status |-> "ok",
           data |-> [n \in {"a", "b"} |->
                       RawPath(parse_techliquidators_detail(parse_in[n].page,
                                                            parse_in[n].url),
                               parse_in[n].url, parse_in[n].year)]]
    /\ UNCHANGED <<disk, runs, pc, args, site, crawl_state, detail_state,
                   exit_status, prev, only_resume, parse_in, quickbidz, orders>>

NextPaths == StorePaths

SpecPaths == InitPaths /\ [][NextPaths]_vars

\* ------------------------------------------------------------------------
\* The extractor's numeric fields, checked alone
\* ------------------------------------------------------------------------

\* the texts a price field carries; the first stands for a page without
\* the field
PriceTexts == {None, <<"$", "0">>, <<"$", "5">>}

\* the rows parse_bid_history captured, latest first
BidHistories ==
    {<<>>,
     <<[bid |-> <<"$", "7">>]>>,
     <<[bid |-> <<"$", "7">>], [bid |-> <<"$", "9">>]>>}

BidTitles == {None, <<"Lot", " ", "Orig", ".", " ", "Retail", " ", "$", "3", "0">>}

\* the label/value pairs of a page carrying the fields that are given
PricePairs(msrp, retail, bid) ==
    (IF msrp = None THEN <<>> ELSE <<Pair(<<"MSRP">>, msrp)>>)
    \o (IF retail = None THEN <<>> ELSE <<Pair(<<"Retail", " ", "Value">>, retail)>>)
    \o (IF bid = None THEN <<>> ELSE <<Pair(<<"Current", " ", "Bid">>, bid)>>)

BidPages ==
    {[EmptyPage EXCEPT !.listing_title = lt, !.og_title = <<"Lot">>,
                       !.pairs = PricePairs(m, r, b), !.bid_history = bh] :
        lt \in BidTitles, m \in PriceTexts, r \in PriceTexts, b \in PriceTexts,
        bh \in BidHistories}

InitBids ==
    /\ Idle
    /\ parse_in \in [page : BidPages, url : {D1}]
    /\ parse_out = NotParsed

NextBids == Extract

SpecBids == InitBids /\ [][NextBids]_vars

\* ------------------------------------------------------------------------
\* The link classifier alone: lines 679-684 on one fetched listing page
\* ------------------------------------------------------------------------

CrossDetail == <<"other", "/", "detail", "/", "B7", "/", "s7">>

CrossPage == <<"other", "/", "lots", "/", "?", "page", "=", "9">>

HyphenDetail == <<"/", "detail", "/", "A2", "/", "my", "-", "lot">>

\* the href values of the anchors
LinkHrefs == {Path(D1), Path(L2), CrossDetail, CrossPage, HyphenDetail, <<"#", "top">>}

Quoted(t) == <<"\"">> \o t \o <<"\"">>

\* the other texts of the document: a quoted link of a script, a category
\* link, a page-number pattern of a script
LinkScripts ==
    {Quoted(Path(D2)), Quoted(CrossDetail),
     <<"/", "c", "/", "FergusonHome", "/", "x", "s", "y">>,
     <<"?", "page", "=", "\\", "d">>}

LinkPages ==
    {[anchors |-> a, scripts |-> sc] :
        a \in {<<>>} \cup {<<x>> : x \in LinkHrefs}
                 \cup {<<x, y>> : x \in LinkHrefs, y \in LinkHrefs},
        sc \in {<<>>} \cup {<<x>> : x \in LinkScripts}}

InitLinks ==
    /\ Idle
    /\ parse_in \in [page : LinkPages, url : {L1}]
    /\ parse_out = NotParsed

\* lines 679-684: the links of the page are collected and classified
ClassifyLinks ==
    /\ parse_out = NotParsed
    /\ \E scanned \in Orderings(extract_links_from_html(parse_in.page, parse_in.url)) :
          LET links == collect_links(parse_in.page.anchors, parse_in.url) \o scanned
          IN  parse_out' = [status |-> "ok",
                            data |-> [detail |-> find_detail_links(links),
                                      pagination |-> find_pagination_links(links)]]
    /\ UNCHANGED <<disk, runs, pc, args, site, crawl_state, detail_state,
                   exit_status, prev, only_resume, parse_in, quickbidz, orders>>

NextLinks == ClassifyLinks

SpecLinks == InitLinks /\ [][NextLinks]_vars

\* ------------------------------------------------------------------------
\* normalize_pairs alone, on a list of pairs and on the same list with one
\* more pair
\* ------------------------------------------------------------------------

\* pairs whose normalized label is a key of LABEL_MAP
MappedPairs ==
    {Pair(<<"Condition">>, <<"New">>),
     Pair(<<" ", "CONDITION", " ">>, <<"Used">>),
     Pair(<<"Lot", " ", " ", "ID">>, <<"L7">>),
     Pair(<<"MSRP">>, <<"$", "5">>)}

\* pairs whose normalized label is no key of LABEL_MAP; filter_pairs drops
\* the last one
OtherPairs ==
    {Pair(<<"Color">>, <<"red">>),
     Pair(<<"Lot", " ", "Size">>, <<"4", "2">>),
     Pair(<<"Condition", "?">>, <<"New">>)}

InsertAt(q, x, k) == SubSeq(q, 1, k) \o <<x>> \o SubSeq(q, k + 1, Len(q))

PairsPage(pairs) ==
    [EmptyPage EXCEPT !.og_title = <<"Lot">>,
                      !.pairs = pairs,
                      !.outline = (<<"condition">> :> <<"Used">>)
                                      @@ (<<"lot", " ", "size">> :> <<"9">>)]

InitPairs ==
    /\ Idle
    /\ \E pairs \in {<<>>} \cup {<<x>> : x \in MappedPairs}
                       \cup {<<x, y>> : x \in MappedPairs, y \in MappedPairs} :
          \E extra \in OtherPairs, at \in 0..2 :
             /\ at <= Len(pairs)
             /\ parse_in = [pairs |-> pairs, extra |-> extra, at |-> at, url |-> D1]
    /\ parse_out = NotParsed

\* lines 287-289 and 321-415, on the list and on the longer list
NormalizePairs ==
    /\ parse_out = NotParsed
    /\ LET longer == InsertAt(parse_in.pairs, parse_in.extra, parse_in.at)
       IN  parse_out' =
              [status |-> "ok",
               data |-> [normalized |-> normalize_pairs(parse_in.pairs),
                         normalized_longer |-> normalize_pairs(longer),
                         record |-> parse_techliquidators_detail(
                                        PairsPage(parse_in.pairs), parse_in.url),
                         record_longer |-> parse_techliquidators_detail(
                                               PairsPage(longer), parse_in.url)]]
    /\ UNCHANGED <<disk, runs, pc, args, site, crawl_state, detail_state,
                   exit_status, prev, only_resume, parse_in, quickbidz, orders>>

NextPairs == NormalizePairs

SpecPairs == InitPairs /\ [][NextPairs]_vars

\* ------------------------------------------------------------------------
\* The field parsers alone
\* ------------------------------------------------------------------------

\* the tokens of the texts given to the parsers
NumberTokens == {"$", ",", "5", ".", " ", "lb"}

NumberTexts ==
    {<<>>} \cup {<<a>> : a \in NumberTokens}
           \cup {<<a, b>> : a \in NumberTokens, b \in NumberTokens}
           \cup {<<a, b, c>> : a \in NumberTokens, b \in NumberTokens,
                               c \in NumberTokens}

InitNumbers ==
    /\ Idle
    /\ parse_in \in NumberTexts
    /\ parse_out = NotParsed

\* lines 97-121: the three parsers are applied to the text
ParseNumbers ==
    /\ parse_out = NotParsed
    /\ parse_out' = [status |-> "ok",
                     data |-> [currency |-> parse_currency(parse_in),
                               int |-> parse_int(parse_in),
                               weight_lbs |-> parse_weight_lbs(parse_in)]]
    /\ UNCHANGED <<disk, runs, pc, args, site, crawl_state, detail_state,
                   exit_status, prev, only_resume, parse_in, quickbidz, orders>>

NextNumbers == ParseNumbers

SpecNumbers == InitNumbers /\ [][NextNumbers]_vars

\* ------------------------------------------------------------------------
\* quickbidz_recovery.py, past-auctions mode (a URL without /live-auction/,
\* no --category)
\* ------------------------------------------------------------------------

\* A listing page of the site is
\*   pagination   whether the document holds the word "pagination"
\*   links        the texts page=... of the 2500 characters after it
\*   blocks       the card blocks: the text after retail-price-amount">,
\*                the text after au-price price, the href value
\* The patterns are raw strings with doubled backslashes, so \\s* is a
\* backslash followed by letters s, \\$ a backslash followed by the end of
\* the text, \\. a backslash followed by any character, \\d+ a backslash
\* followed by letters d.

IsLetterS(c) == c = "s"

\* RETAIL_RE = retail-price-amount">\\s*\\$\\s*([0-9,]+...) on the text that
\* follows retail-price-amount"> : <<>> without a match, else <<group(1)>>
RETAIL_RE(t) ==
    LET b == RunEnd(IsLetterS, t, 2)
        g == RunEnd(IsLetterS, t, b + 2)
    IN  IF /\ Len(t) >= 1 /\ t[1] = "\\"
           /\ b <= Len(t) /\ t[b] = "\\"
           /\ b + 1 > Len(t)
           /\ b + 1 <= Len(t) /\ t[b + 1] = "\\"
           /\ NumRunEnd(t, g) > g
        THEN <<SubSeq(t, g, NumRunEnd(t, g) - 1)>>
        ELSE <<>>

\* FINAL_RE = au-price price[\\s\\S]*?\\$\\s*([0-9,]+...) on the text that
\* follows au-price price
FINAL_RE(t) ==
    LET hits == {k \in 1..Len(t) :
                    /\ \A j \in 1..(k - 1) : t[j] \in {"\\", "s", "S"}
                    /\ t[k] = "\\"
                    /\ k + 1 > Len(t)
                    /\ k + 1 <= Len(t) /\ t[k + 1] = "\\"}
        k0 == CHOOSE k \in hits : \A j \in hits : k <= j
        g == RunEnd(IsLetterS, t, k0 + 2)
    IN  IF hits # {} /\ NumRunEnd(t, g) > g
        THEN <<SubSeq(t, g, NumRunEnd(t, g) - 1)>>
        ELSE <<>>

\* LISTING_URL_RE = href="(https://www\\.quickbidz\\.com/listing/[^"]+)" on
\* an href value <<"https://www", ".", "quickbidz", ".", "com", ...>>
LISTING_URL_RE(h) ==
    IF /\ Len(h) >= 11 /\ h[1] = "https://www" /\ h[2] = "\\"
       /\ h[4] = "quickbidz" /\ h[5] = "\\" /\ h[7] = "com"
       /\ h[8] = "/" /\ h[9] = "listing" /\ h[10] = "/"
    THEN h ELSE None

\* parse_cards: a block without a retail or a final match is skipped
RECURSIVE parse_cards(_)
parse_cards(blocks) ==
    IF blocks = <<>> THEN <<>>
    ELSE LET block == Head(blocks)
             retail_match == RETAIL_RE(block.retail)
             final_match == FINAL_RE(block.final)
         IN  IF retail_match = <<>> \/ final_match = <<>>
             THEN parse_cards(Tail(blocks))
             ELSE <<[retail |-> ToFloatCents(StripCommas(retail_match[1])),
                     final |-> ToFloatCents(StripCommas(final_match[1])),
                     listing_url |-> LISTING_URL_RE(block.href)]>>
                      \o parse_cards(Tail(blocks))

\* int(p) for a group of re.findall(r"page=(\\d+)", block)
IntOf(p) ==
    IF p # <<>> /\ \A i \in 1..Len(p) : p[i] \in Digits
    THEN DigitsToNat(p) ELSE Raised

\* the groups of re.findall(r"page=(\\d+)", block): a backslash and letters d
PageGroups(links) ==
    {SubSeq(l, 3, RunEnd(LAMBDA c : c = "d", l, 4) - 1) :
        l \in {x \in Range(links) :
                  /\ Len(x) >= 4 /\ x[1] = "page" /\ x[2] = "="
                  /\ x[3] = "\\" /\ x[4] = "d"}}

\* detect_max_page: 1 without the word or without a match, else the largest
\* int(p); int() is not guarded
detect_max_page(html) ==
    LET pages == {IntOf(p) : p \in PageGroups(html.links)}
    IN  IF ~html.pagination \/ pages = {} THEN 1
        ELSE IF Raised \in pages THEN Raised
        ELSE CHOOSE m \in pages : \A k \in pages : k <= m

RECURSIVE SumOf(_, _)
SumOf(cards, field) ==
    IF cards = <<>> THEN 0 ELSE Head(cards)[field] + SumOf(Tail(cards), field)

\* aggregate_cards; amounts in cents, the percentage in hundredths
aggregate_cards(cards) ==
    LET retail_total == SumOf(cards, "retail")
        final_total == SumOf(cards, "final")
    IN  [count |-> Len(cards),
         retail_total |-> retail_total,
         final_total |-> final_total,
         recovery_pct |-> IF retail_total # 0
                          THEN (final_total * 10000) \div retail_total ELSE 0]

\* line 155: f.tell() right after open(log_path, "r"): the position of a
\* file just opened for reading is its start, whatever the file holds
TellAfterOpen(log) == 0

\* lines 152-157: write_header; a missing file (here the empty log) raises
\* FileNotFoundError
WriteHeader(log) == IF log = <<>> THEN TRUE ELSE TellAfterOpen(log) = 0

\* lines 130-163: the header line when write_header, then the row; the
\* file is opened in mode "a".  The timestamp and the URL are left out.
log_run(log, result) ==
    (IF WriteHeader(log) THEN Append(log, [line |-> "header"]) ELSE log)
    \o <<[line |-> "row", mode |-> "past-auctions", items_count |-> result.count,
          retail_total |-> result.retail_total,
          final_total |-> result.final_total,
          recovery_pct |-> result.recovery_pct]>>

\* the data rows of the log file
DataRows(log) == SelectSeq(log, LAMBDA l : l.line = "row")

\* the runs of quickbidz_recovery followed
MaxQbRuns == 2

\* a card block as the site writes it: retail $10.00, final price $5.00
CardBlock ==
    [retail |-> <<" ", "$", "1", "0", ".", "0", "0">>,
     final |-> <<"\"", ">", " ", "$", "5", ".", "0", "0">>,
     href |-> <<"https://www", ".", "quickbidz", ".", "com", "/", "listing",
                "/", "a", "/", "1">>]

\* a card block spelled with the backslashes and letters of the patterns
SlashBlock ==
    [retail |-> <<"\\", "s", "\\", "\\", "s", "7">>,
     final |-> <<"s", "\\", "\\", "7">>,
     href |-> <<"https://www", "\\", ".", "quickbidz", "\\", ".", "com", "/",
                "listing", "/", "a">>]

QbBlocks == {<<>>, <<CardBlock>>, <<CardBlock, SlashBlock>>}

PageLink(n) == <<"page", "=", n>>

\* the pagination blocks of a first page: none, links to pages 2 and 3, and
\* a text page=\d
QbPaginations ==
    {[pagination |-> FALSE, links |-> <<>>],
     [pagination |-> TRUE, links |-> <<PageLink("1"), PageLink("2"), PageLink("3")>>],
     [pagination |-> TRUE, links |-> <<PageLink("2"), <<"page", "=", "\\", "d">>>>]}

QbPage(pg, blocks) ==
    [pagination |-> pg.pagination, links |-> pg.links, blocks |-> blocks]

\* the listings the server holds: one to three pages
QbListings ==
    {SubSeq(<<QbPage(pg, b), QbPage(pg, <<CardBlock>>),
              QbPage(pg, <<CardBlock, CardBlock>>)>>, 1, n) :
        pg \in QbPaginations, b \in QbBlocks, n \in 1..3}

\* main() is started: lines 166-255
QbStart ==
    /\ qb_pc \in {"idle", "done", "crashed"}
    /\ Len(DataRows(qb_out.log)) < MaxQbRuns
    /\ \E html \in QbListings, has_pages \in BOOLEAN, pages \in 1..2 :
          /\ (~has_pages => pages = 1)
          /\ qb_in' = [has_pages |-> has_pages, pages |-> pages, html |-> html]
    /\ qb_pc' = "first"
    /\ qb_cards' = <<>>
    /\ qb_fetches' = <<>>
    /\ qb_out' = [report |-> <<>>, log |-> qb_out.log]
    /\ UNCHANGED <<disk, runs, pc, args, site, crawl_state, detail_state,
                   exit_status, prev, only_resume, orders, parse>>

\* line 256: fetch_html(first_url) raises; nothing catches it
QbFirstFetchFail ==
    /\ qb_pc = "first"
    /\ qb_fetches' = Append(qb_fetches, [page |-> 1, ok |-> FALSE])
    /\ qb_pc' = "crashed"
    /\ UNCHANGED <<disk, runs, pc, args, site, crawl_state, detail_state,
                   exit_status, prev, only_resume, orders, parse,
                   qb_in, qb_cards, qb_out>>

\* lines 257-259
MaxPage(in) ==
    LET max_page == detect_max_page(in.html[1])
    IN  IF max_page = Raised THEN Raised
        ELSE IF in.has_pages /\ in.pages < max_page THEN in.pages ELSE max_page

\* lines 256-269: the first page is fetched, the number of pages is read
\* from it, its cards are taken.  detect_max_page returns 1 or raises, so
\* the pool of lines 270-273 is not entered.
QbFirstFetchOk ==
    /\ qb_pc = "first"
    /\ qb_fetches' = Append(qb_fetches, [page |-> 1, ok |-> TRUE])
    /\ IF MaxPage(qb_in) = Raised
       THEN /\ qb_pc' = "crashed"
            /\ qb_cards' = qb_cards
       ELSE /\ qb_pc' = IF MaxPage(qb_in) > 1 THEN "pool" ELSE "aggregate"
            /\ qb_cards' = qb_cards \o parse_cards(qb_in.html[1].blocks)
    /\ UNCHANGED <<disk, runs, pc, args, site, crawl_state, detail_state,
                   exit_status, prev, only_resume, orders, parse, qb_in, qb_out>>

\* lines 275-296: the cards are aggregated, reported and logged
QbReport ==
    /\ qb_pc = "aggregate"
    /\ LET result == aggregate_cards(qb_cards)
       IN  qb_out' = [report |-> <<result>>, log |-> log_run(qb_out.log, result)]
    /\ qb_pc' = "done"
    /\ UNCHANGED <<disk, runs, pc, args, site, crawl_state, detail_state,
                   exit_status, prev, only_resume, orders, parse,
                   qb_in, qb_cards, qb_fetches>>

NextRecovery ==
    \/ QbStart
    \/ QbFirstFetchFail
    \/ QbFirstFetchOk
    \/ QbReport

SpecRecovery == Init /\ [][NextRecovery]_vars

\* ------------------------------------------------------------------------
\* sync_techliquidators_orders: fetch_pages
\* ------------------------------------------------------------------------

\* an <a href=...> of a page: its text, its aria-label and its href
Anchor(text, aria, href) == [text |-> text, aria |-> aria, href |-> href]

\* line 221: the test on one anchor
IsNextAnchor(a) ==
    \/ Lower(Strip(a.text)) \in {<<"next">>, <<"next", " ", "page">>}
    \/ Contains(Lower(a.aria), <<"next">>)

\* lines 217-225
find_next_page(html, base_url) ==
    LET hits == {i \in 1..Len(html) : IsNextAnchor(html[i])}
    IN  IF hits = {} THEN None
        ELSE urljoin(base_url, html[CHOOSE i \in hits : \A k \in hits : i <= k].href)

\* lines 237: the test on resp.url
IsLoginURL(url) == Contains(url, <<"/", "login">>) \/ Contains(url, <<"/", "sign_in">>)

O1 == <<"h", "/", "orders">>
O2 == <<"h", "/", "orders", "?", "page", "=", "2">>
O3 == <<"h", "/", "orders", "?", "page", "=", "3">>

OrderURLs == {O1, O2, O3}

LoginURL == <<"h", "/", "login">>

SignInURL == <<"h", "/", "users", "/", "sign_in">>

\* a page with a link back and, when there is a next page, a "Next" link
NextHtml(t) ==
    <<Anchor(<<"Prev">>, <<>>, Path(O1))>>
    \o (IF t = None THEN <<>> ELSE <<Anchor(<<" ", "Next", " ">>, <<>>, Path(t))>>)

\* a page whose next link is told by its aria-label
AriaHtml(t) == <<Anchor(<<">">>, <<"Go", " ", "to", " ", "Next">>, Path(t))>>

\* what the server may answer to a request of url: the page with some next
\* link, an error status, a redirect to a login page, a redirect to the
\* third page
Answers(url) ==
    {[status_code |-> 200, url |-> url, html |-> NextHtml(t)] : t \in OrderURLs \cup {None}}
    \cup {[status_code |-> 200, url |-> url, html |-> AriaHtml(O3)],
          [status_code |-> 404, url |-> url, html |-> <<>>],
          [status_code |-> 200, url |-> LoginURL, html |-> <<>>],
          [status_code |-> 200, url |-> SignInURL, html |-> <<>>],
          [status_code |-> 200, url |-> O3, html |-> NextHtml(O1)]}

Servers ==
    {f \in [OrderURLs -> UNION {Answers(u) : u \in OrderURLs}] :
        \A u \in OrderURLs : f[u] \in Answers(u)}

\* the --max-pages values of the walk
MaxWalkPages == 2

\* lines 228-231: fetch_pages is called
FpStart ==
    /\ fp_pc = "idle"
    /\ \E server \in Servers, mp \in 0..MaxWalkPages :
          fp_in' = [start_url |-> O1, max_pages |-> mp, server |-> server]
    /\ fp_url' = O1
    /\ fp_seen' = {}
    /\ fp_pages' = <<>>
    /\ fp_requests' = <<>>
    /\ fp_pc' = "loop"
    /\ UNCHANGED <<disk, runs, pc, args, site, crawl_state, detail_state,
                   exit_status, prev, only_resume, parse, quickbidz>>

\* line 232: while url and url not in seen
FpContinue(url, seen) == Truthy(url) /\ url \notin seen

\* a seen set that is never written
FpSeenKeep(seen, url) == seen

\* line 233: seen.add(url)
FpSeenAdd(seen, url) == seen \cup {url}

\* lines 232 and 243: the loop ends, pages is returned
FpLoopEnd ==
    /\ fp_pc = "loop"
    /\ ~FpContinue(fp_url, fp_seen)
    /\ fp_pc' = "returned"
    /\ UNCHANGED <<disk, runs, pc, args, site, crawl_state, detail_state,
                   exit_status, prev, only_resume, parse, quickbidz,
                   fp_in, fp_url, fp_seen, fp_pages, fp_requests>>

\* lines 232-234: session.get raises; nothing in fetch_pages catches it
FpRaise ==
    /\ fp_pc = "loop"
    /\ FpContinue(fp_url, fp_seen)
    /\ fp_seen' = FpSeenAdd(fp_seen, fp_url)
    /\ fp_requests' = Append(fp_requests, fp_url)
    /\ fp_pc' = "raised"
    /\ UNCHANGED <<disk, runs, pc, args, site, crawl_state, detail_state,
                   exit_status, prev, only_resume, parse, quickbidz,
                   fp_in, fp_url, fp_pages>>

\* lines 232-238: the answer is not a 200 or came from a login URL: break
FpBreak ==
    /\ fp_pc = "loop"
    /\ FpContinue(fp_url, fp_seen)
    /\ LET resp == fp_in.server[fp_url]
       IN  resp.status_code # 200 \/ IsLoginURL(resp.url)
    /\ fp_seen' = FpSeenAdd(fp_seen, fp_url)
    /\ fp_requests' = Append(fp_requests, fp_url)
    /\ fp_pc' = "returned"
    /\ UNCHANGED <<disk, runs, pc, args, site, crawl_state, detail_state,
                   exit_status, prev, only_resume, parse, quickbidz,
                   fp_in, fp_url, fp_pages>>

\* lines 232-242: the page is collected; the loop breaks at max_pages pages
\* or goes on with the next link of the page
FpCollect ==
    /\ fp_pc = "loop"
    /\ FpContinue(fp_url, fp_seen)
    /\ LET resp == fp_in.server[fp_url]
           pages == Append(fp_pages, [url |-> resp.url, html |-> resp.html])
       IN  /\ resp.status_code = 200 /\ ~IsLoginURL(resp.url)
           /\ fp_pages' = pages
           /\ IF fp_in.max_pages # 0 /\ Len(pages) >= fp_in.max_pages
              THEN fp_pc' = "returned" /\ fp_url' = fp_url
              ELSE fp_pc' = "loop" /\ fp_url' = find_next_page(resp.html, resp.url)
    /\ fp_seen' = FpSeenAdd(fp_seen, fp_url)
    /\ fp_requests' = Append(fp_requests, fp_url)
    /\ UNCHANGED <<disk, runs, pc, args, site, crawl_state, detail_state,
                   exit_status, prev, only_resume, parse, quickbidz, fp_in>>

FpLoop == FpLoopEnd \/ FpRaise \/ FpBreak \/ FpCollect

NextOrders == FpStart \/ FpLoop

SpecOrders == Init /\ [][NextOrders]_vars

\* the loop of fetch_pages is not stopped from outside: a step of it that
\* can be taken is taken
SpecOrdersLive == SpecOrders /\ WF_vars(FpLoop)

\* ------------------------------------------------------------------------
\* Properties of the resumable store
\* ------------------------------------------------------------------------

IsPrefix(a, b) == Len(a) <= Len(b) /\ SubSeq(b, 1, Len(a)) = a

\* C1: idempotent resume.  After any number of consecutive runs given
\* --resume, index.jsonl holds at most one entry per detail URL (the "url"
\* field of the entries), whatever the server answers, redirects included.
C1_OneEntryPerUrl ==
    only_resume =>
        \A i, j \in 1..Len(index_jsonl) :
            i # j => index_jsonl[i].url # index_jsonl[j].url

\* C2: when a run with --resume returned, all its detail fetches having
\* succeeded, and the next run with --resume discovers the same set of
\* detail URLs, that next run fetches no detail page.
C2_SecondRunFetchesNothing ==
    (/\ pc = "done" /\ args.resume /\ prev.clean
     /\ Range(prev.urls) = Range(detail_urls))
        => detail_fetches = <<>>

\* C3: index.jsonl is append-only.  Every step of every run, with --resume
\* or without, with fetch failures or without, leaves the log as it was or
\* extends it: the earlier contents are a prefix of the later contents.
C3_AppendOnly == [][IsPrefix(index_jsonl, index_jsonl')]_vars

\* a second run has appended to a log that the first run wrote, in a
\* behaviour with a failed fetch
C3_Witness ==
    /\ runs = 2
    /\ existing_entries # <<>>
    /\ new_entries # <<>>
    /\ scrape_log # <<>>
    /\ index_jsonl = existing_entries \o new_entries

\* ------------------------------------------------------------------------
\* Properties of the extractor
\* ------------------------------------------------------------------------

\* the value a tier-1 source of the page gives for a canonical field, None
\* when the page has no such source: the title-edit attribute, the outline
\* box, the pricing box, the download-manifest link
Tier1(page, url, field) ==
    CASE field = "title" -> page.listing_title
      [] field = "condition" -> Get(page.outline, <<"condition">>)
      [] field = "warehouse" -> Get(page.outline, <<"warehouse">>)
      [] field = "lot_id" -> Get(page.pricing, "listing-name")
      [] OTHER -> ResolveManifestUrl(page, url)

Tier1Fields == {"title", "condition", "warehouse", "lot_id", "manifest_url"}

\* C4: precedence.  For every page and every canonical field for which a
\* tier-1 source of the page gives a value, the returned record holds that
\* value under the field, whatever label/value pairs, Open Graph tags and
\* ld+json the page also carries.
C4_Tier1Wins ==
    parse_out.status = "ok" =>
        \A f \in Tier1Fields :
            Truthy(Tier1(parse_in.page, parse_in.url, f)) =>
                /\ f \in DOMAIN parse_out.data
                /\ parse_out.data[f] = Tier1(parse_in.page, parse_in.url, f)

\* ------------------------------------------------------------------------
\* Properties of the listing crawl
\* ------------------------------------------------------------------------

\* the links of a listing page, as a set
PageLinks(s, url) ==
    IF url \in DOMAIN s.pages
    THEN Range(collect_links(s.pages[url].anchors, url))
             \cup extract_links_from_html(s.pages[url], url)
    ELSE {}

\* the listing URLs reachable from the start URLs through the pagination
\* links of the pages whose fetch did not fail
RECURSIVE ReachFrom(_, _, _)
ReachFrom(s, failed, seen) ==
    LET next == UNION {{l \in PageLinks(s, u) : PaginationPattern(l)} :
                          u \in seen \ failed}
    IN  IF next \subseteq seen THEN seen ELSE ReachFrom(s, failed, seen \cup next)

FailedListings == {listing_fetches[i].url :
                      i \in {k \in 1..Len(listing_fetches) : ~listing_fetches[k].ok}}

Reachable == ReachFrom(site, FailedListings, Range(site.start_urls))

\* C5: page budget.  With --max-pages N >= 1 no crawl fetches more than N
\* listing pages, and on a listing graph with more than N reachable pages
\* the crawl fetches exactly N pages and ends by the budget.
C5_PageBudget ==
    args.max_pages >= 1 =>
        /\ Len(listing_fetches) <= args.max_pages
        /\ (pc \in {"crawl_done", "detail"}
              /\ Cardinality(Reachable) > args.max_pages)
               => /\ Len(listing_fetches) = args.max_pages
                  /\ terminal = "BudgetReached"

\* a crawl with a budget of two pages, on a graph with more than two
\* reachable pages, has ended
C5_Witness ==
    /\ pc = "crawl_done"
    /\ args.max_pages = 2
    /\ Cardinality(Reachable) > 2
    /\ terminal = "BudgetReached"
    /\ Len(listing_fetches) = 2

Last(q) == q[Len(q)]

\* the detail links of the listing pages fetched with success
CollectedDetailLinks ==
    UNION {{l \in PageLinks(site, listing_fetches[i].url) : TECHLIQUIDATORS_PATTERN(l)} :
              i \in {k \in 1..Len(listing_fetches) : listing_fetches[k].ok}}

\* C6: a failed listing fetch is absorbed.  The step in which the fetch of
\* a listing page fails appends one line naming that URL to scrape.log,
\* keeps the detail URLs collected so far and goes on with the rest of the
\* queue; and the crawl returns every detail URL of the pages it fetched.
C6_ListingFailureAbsorbed ==
    [][/\ (/\ Len(listing_fetches') = Len(listing_fetches) + 1
           /\ ~Last(listing_fetches').ok)
          => /\ scrape_log' = Append(scrape_log,
                                     [kind |-> "listing_fetch_failed",
                                      url |-> Last(listing_fetches').url])
             /\ pc' = "crawl"
             /\ queue' = Tail(queue)
             /\ crawl_urls' = crawl_urls
       /\ (pc' = "detail" /\ args'.max_auctions = 0)
          => Range(detail_urls') = CollectedDetailLinks']_vars

\* a crawl in which a listing fetch failed between two that succeeded has
\* returned the detail URLs of both
C6_Witness ==
    /\ pc = "detail"
    /\ \E i, j, k \in 1..Len(listing_fetches) :
          /\ i < j /\ j < k
          /\ listing_fetches[i].ok /\ ~listing_fetches[j].ok /\ listing_fetches[k].ok
    /\ Len(scrape_log) = 1
    /\ Len(detail_urls) = 2

\* ------------------------------------------------------------------------
\* Properties of a run
\* ------------------------------------------------------------------------

\* C7: per-item failures are absorbed.  A run that has ended has gone
\* through every detail URL of its list and has regenerated index.csv from
\* the whole log, whatever failed while one item was processed.
C7_ItemFailuresAbsorbed ==
    pc \in {"done", "crashed"} =>
        /\ idx > Len(detail_urls)
        /\ index_csv = write_summary_csv(index_jsonl)

\* C8: exit status.  A run ends with a non-zero status if and only if none
\* of its listing fetches succeeded.
C8_ExitStatus ==
    pc \in {"done", "crashed"} =>
        (exit_status # 0 <=>
            \A i \in 1..Len(listing_fetches) : ~listing_fetches[i].ok)

\* C9: after a run that returned, index.csv has one row per entry of
\* index.jsonl, the entries from before the run followed by those of the
\* run, in the order of the log.
C9_SummaryCoversLog ==
    pc = "done" =>
        /\ Len(index_csv.rows) = Len(index_jsonl)
        /\ \A i \in 1..Len(index_jsonl) :
              \A k \in 1..Len(SUMMARY_FIELDS) :
                  index_csv.rows[i][SUMMARY_FIELDS[k]] =
                      SummaryCell(index_jsonl[i], SUMMARY_FIELDS[k])

\* a run has returned with entries from before it and entries of its own
C9_Witness ==
    /\ pc = "done"
    /\ existing_entries # <<>>
    /\ new_entries # <<>>
    /\ Len(index_jsonl) >= 2
    /\ index_jsonl[1].url # index_jsonl[Len(index_jsonl)].url

\* the fields of the log outside the schema that some entry lacks
PartialExtraFields ==
    {f \in UNION {DOMAIN index_jsonl[i] : i \in 1..Len(index_jsonl)} :
        /\ f \notin Range(SUMMARY_FIELDS)
        /\ \E i \in 1..Len(index_jsonl) : f \notin DOMAIN index_jsonl[i]}

EmbeddedLinks(page) ==
    {SubSeq(t, 2, Len(t) - 1) :
        t \in {x \in Range(page.scripts) :
                  Len(x) > 2 /\ x[1] = "\"" /\ x[Len(x)] = "\""}}

LinksOfPage(page, base_url) ==
    {urljoin(base_url, Strip(h)) :
        h \in {x \in Range(page.anchors) \cup EmbeddedLinks(page) :
                  Strip(x) # <<>> /\ Strip(x)[1] # "#"}}

\* the page without its cross-host links
WithoutCrossHost(page, base_url) ==
    [anchors |-> SelectSeq(page.anchors,
                           LAMBDA h : is_same_host(base_url, urljoin(base_url, Strip(h)))),
     scripts |-> SelectSeq(page.scripts,
                           LAMBDA t : \A l \in EmbeddedLinks([scripts |-> <<t>>]) :
                                         is_same_host(base_url, urljoin(base_url, l)))]

\* the links lines 680-681 gather on a page, as a set
GatheredLinks(page, base_url) ==
    Range(collect_links(page.anchors, base_url))
        \cup extract_links_from_html(page, base_url)

\* C11: link classification of one fetched listing page.  The detail set
\* is exactly the same-host links of the page that match the detail
\* matcher, and the detail set and the pagination set are what they would
\* be without the page's cross-host links.
C11_Classification ==
    parse_out.status = "ok" =>
        LET page == parse_in.page
            url == parse_in.url
            rest == GatheredLinks(WithoutCrossHost(page, url), url)
        IN  /\ Range(parse_out.data.detail) =
                  {l \in LinksOfPage(page, url) :
                      is_same_host(url, l) /\ TECHLIQUIDATORS_PATTERN(l)}
            /\ Range(parse_out.data.detail) = {l \in rest : TECHLIQUIDATORS_PATTERN(l)}
            /\ Range(parse_out.data.pagination) = {l \in rest : PaginationPattern(l)}

\* ------------------------------------------------------------------------
\* Properties of normalize_pairs
\* ------------------------------------------------------------------------

\* the record without the two fields that list the page's pairs as found
Canonical(record) ==
    [k \in DOMAIN record \ {"raw_kv_pairs", "kv_pairs"} |-> record[k]]

\* C12: unmapped labels are inert.  A pair whose normalized label is no key
\* of LABEL_MAP, put anywhere in a list of pairs, changes neither what
\* normalize_pairs returns nor any canonical field of the record.
C12_UnmappedInert ==
    (/\ parse_out.status = "ok"
     /\ normalize_label(parse_in.extra.label) \notin DOMAIN LABEL_MAP)
        => /\ parse_out.data.normalized_longer = parse_out.data.normalized
           /\ Canonical(parse_out.data.record_longer) = Canonical(parse_out.data.record)

\* an unmapped pair that filter_pairs keeps was put before two mapped pairs
C12_Witness ==
    /\ parse_out.status = "ok"
    /\ parse_in.extra.label = <<"Color">>
    /\ parse_in.at = 0
    /\ Len(parse_in.pairs) = 2
    /\ "condition" \in DOMAIN parse_out.data.normalized_longer
    /\ parse_out.data.record_longer.raw_kv_pairs # parse_out.data.record.raw_kv_pairs

\* ------------------------------------------------------------------------
\* Properties of the field parsers
\* ------------------------------------------------------------------------

\* C13: parse_currency, parse_int and parse_weight_lbs are total.  On every
\* text each returns a number or None and none raises, a text whose
\* numeric token holds separators only included.
C13_ParsersTotal ==
    parse_out.status = "ok" =>
        /\ parse_out.data.currency # Raised
        /\ parse_out.data.int # Raised
        /\ parse_out.data.weight_lbs # Raised

\* ------------------------------------------------------------------------
\* Properties of the recovery report
\* ------------------------------------------------------------------------

\* the pages of the listing the run is to cover
ListedPages ==
    1..(IF qb_in.has_pages /\ qb_in.pages < Len(qb_in.html)
        THEN qb_in.pages ELSE Len(qb_in.html))

QbFailed == {qb_fetches[i].page : i \in {k \in 1..Len(qb_fetches) : ~qb_fetches[k].ok}}

RECURSIVE CardCount(_)
CardCount(pages) ==
    IF pages = {} THEN 0
    ELSE LET p == CHOOSE x \in pages : TRUE
         IN  Len(qb_in.html[p].blocks) + CardCount(pages \ {p})

FirstAt(q, x) == CHOOSE i \in 1..Len(q) : q[i] = x /\ \A k \in 1..(i - 1) : q[k] # x

\* C15: the detail-URL list of a run holds no URL twice, lists the URLs in
\* the order in which each was first discovered, and is the whole of the
\* discovered URLs without --max-auctions and their first M with
\* --max-auctions M.
C15_DetailList ==
    pc = "detail" =>
        LET found == Range(crawl_urls)
            m == args.max_auctions
        IN  /\ \A i, j \in 1..Len(detail_urls) :
                  i < j => /\ detail_urls[i] # detail_urls[j]
                           /\ FirstAt(crawl_urls, detail_urls[i])
                                  < FirstAt(crawl_urls, detail_urls[j])
            /\ Range(detail_urls) \subseteq found
            /\ \A x \in found, y \in Range(detail_urls) :
                  FirstAt(crawl_urls, x) < FirstAt(crawl_urls, y)
                      => x \in Range(detail_urls)
            /\ Len(detail_urls) = IF m # 0 /\ m < Cardinality(found)
                                  THEN m ELSE Cardinality(found)

\* a crawl that met a lot again after another lot has returned its list
\* cut to one URL
C15_Witness ==
    /\ pc = "detail"
    /\ args.max_auctions = 1
    /\ Cardinality(Range(crawl_urls)) = 2
    /\ \E i, j, k \in 1..Len(crawl_urls) :
          /\ i < j /\ j < k
          /\ crawl_urls[i] = crawl_urls[k] /\ crawl_urls[i] # crawl_urls[j]
    /\ Len(detail_urls) = 1

\* ------------------------------------------------------------------------
\* Properties of the phases of a run
\* ------------------------------------------------------------------------

\* C16: phase ordering within one run.  A detail page is fetched only when
\* the listing crawl has ended, its queue drained or its budget reached,
\* and no listing page is fetched once a detail page has been fetched.
C16_PhaseOrder ==
    [][/\ Len(detail_fetches') > Len(detail_fetches)
          => /\ terminal \in {"Exhausted", "BudgetReached"}
             /\ terminal = "Exhausted" => queue = <<>>
             /\ terminal = "BudgetReached"
                   => args.max_pages # 0 /\ Cardinality(visited) > args.max_pages
       /\ Len(listing_fetches') > Len(listing_fetches)
          => detail_fetches = <<>>]_vars

\* in the second run of a behaviour, detail pages have been fetched after a
\* crawl of two listing pages
C16_Witness ==
    /\ runs = 2
    /\ pc = "detail"
    /\ Len(listing_fetches) = 2
    /\ Len(detail_fetches) = 2

\* ------------------------------------------------------------------------
\* Properties of the frontier
\* ------------------------------------------------------------------------

\* C17: termination of the frontier.  On every listing graph, with cycles
\* and self-links and with or without a page budget, a crawl under way
\* ends, in Exhausted with its queue empty or in BudgetReached with a
\* budget given and passed.
C17_Termination ==
    (pc = "crawl") ~>
        (/\ pc = "crawl_done"
         /\ \/ terminal = "Exhausted" /\ queue = <<>>
            \/ /\ terminal = "BudgetReached"
               /\ args.max_pages # 0
               /\ Cardinality(visited) > args.max_pages)

\* a crawl without budget over the graph with a cycle and a self-link has
\* ended, every page fetched
C17_Witness ==
    /\ pc = "crawl_done"
    /\ site = SiteChain
    /\ args.max_pages = 0
    /\ terminal = "Exhausted"
    /\ Len(listing_fetches) = 4
    /\ \A i \in 1..4 : listing_fetches[i].ok

\* C18: within one crawl every listing URL is fetched at most once, however
\* often it stands in the start URLs or is found again as a pagination
\* link, and whether its fetch succeeded or failed.
C18_FetchedOnce ==
    \A i, j \in 1..Len(listing_fetches) :
        i # j => listing_fetches[i].url # listing_fetches[j].url

\* a crawl has ended whose start URLs name one page twice, the fetch of
\* that page having failed the first time it was taken from the queue
C18_Witness ==
    /\ pc = "crawl_done"
    /\ site = SiteTwoStarts
    /\ terminal = "Exhausted"
    /\ Len(listing_fetches) >= 2
    /\ listing_fetches[1] = [url |-> L2, ok |-> FALSE]

\* C19 as claimed: the pending queue of a crawl under way holds no URL of
\* the visited set and no URL twice.
C19_QueueInvariant ==
    pc = "crawl" =>
        /\ Range(queue) \cap visited = {}
        /\ \A i, j \in 1..Len(queue) : i # j => queue[i] # queue[j]

\* C19 as the code has it: every pagination link of a fetched page is
\* appended to the queue, visited or queued already or not, and a URL that
\* is visited when it comes to the head of the queue is dropped without a
\* fetch.
C19_LazyQueue ==
    [][/\ (/\ Len(listing_fetches') = Len(listing_fetches) + 1
           /\ Last(listing_fetches').ok)
          => \E scanned \in Orderings(extract_links_from_html(
                                site.pages[Head(queue)], Head(queue))) :
                queue' = Tail(queue) \o find_pagination_links(
                             collect_links(site.pages[Head(queue)].anchors, Head(queue))
                                 \o scanned)
       /\ (pc = "crawl" /\ queue # <<>> /\ Head(queue) \in visited)
          => /\ queue' = Tail(queue)
             /\ listing_fetches' = listing_fetches
             /\ visited' = visited]_vars

\* the queue of a crawl under way holds the links of the page fetched last
\* back to that page and to the page before it, both visited
C19_Witness ==
    /\ pc = "crawl"
    /\ site = SiteChain
    /\ visited = {L1, L2}
    /\ queue = <<L1, L2, L3>>

\* ------------------------------------------------------------------------
\* C20: breadth-first order
\* ------------------------------------------------------------------------

\* the URL of the i-th listing fetch of the run
FetchedURL(i) == listing_fetches[i].url

\* C20: the listing pages are fetched in the order in which they were first
\* put on the queue: the start URLs come first, in the configured order,
\* then the pagination URLs in the order found; of two pages fetched the
\* one put on the queue first is fetched first, and when a page is fetched
\* every URL put on the queue before it has been visited.
C20_BreadthFirst ==
    pc \in {"crawl", "crawl_done"} =>
        /\ Len(enqueued) >= Len(site.start_urls)
        /\ SubSeq(enqueued, 1, Len(site.start_urls)) = site.start_urls
        /\ \A i \in 1..Len(listing_fetches) : FetchedURL(i) \in Range(enqueued)
        /\ \A i, j \in 1..Len(listing_fetches) :
              i < j => FirstAt(enqueued, FetchedURL(i)) < FirstAt(enqueued, FetchedURL(j))
        /\ \A i \in 1..Len(listing_fetches) :
              \A k \in 1..(FirstAt(enqueued, FetchedURL(i)) - 1) :
                  enqueued[k] \in visited

\* a crawl over the tree of pages has fetched the third page, found on the
\* first page, before the fourth, found on the second page
C20_Witness ==
    /\ pc = "crawl_done"
    /\ site = SiteTree
    /\ terminal = "Exhausted"
    /\ enqueued = <<L1, L2, L3, L4>>
    /\ Len(listing_fetches) = 4
    /\ \A i \in 1..4 : listing_fetches[i].ok
    /\ <<FetchedURL(1), FetchedURL(2), FetchedURL(3), FetchedURL(4)>> = <<L1, L2, L3, L4>>

\* ------------------------------------------------------------------------
\* C21: politeness
\* ------------------------------------------------------------------------

\* C21: with a non-zero --delay, a sleep follows every listing fetch
\* attempt that is followed by another, whether the attempt succeeded or
\* failed.
C21_Politeness ==
    (pc \in {"crawl", "crawl_done"} /\ args.delay # 0) =>
        \A i \in 1..(Len(listing_fetches) - 1) : listing_sleeps[i]

\* ------------------------------------------------------------------------
\* C22: bid-history fallback, null against zero
\* ------------------------------------------------------------------------

\* the number an explicit field of the page parses to, NoNumber when the
\* page has no pair of that label
Observed(page, label) ==
    LET hits == SelectSeq(page.pairs, LAMBDA p : normalize_label(p.label) = label)
    IN  IF hits = <<>> THEN NoNumber ELSE parse_currency(hits[1].value)

\* C22: an explicit current-bid field that parses to a number, zero
\* included, is the record's current_bid_value, the first row of the bid
\* history being taken only when no explicit field was observed; likewise
\* an explicit msrp or retail value, zero included, is kept, the title's
\* original-retail price filling msrp_value and retail_value_value only
\* when the field was not observed.
C22_NullNotZero ==
    parse_out.status = "ok" =>
        LET page == parse_in.page
            bid == Observed(page, <<"current", " ", "bid">>)
            msrp == Observed(page, <<"msrp">>)
            retail == Observed(page, <<"retail", " ", "value">>)
        IN  /\ bid # NoNumber => parse_out.data.current_bid_value = bid
            /\ (bid = NoNumber /\ page.bid_history # <<>>)
                  => parse_out.data.current_bid_value
                        = parse_currency(page.bid_history[1].bid)
            /\ msrp # NoNumber => parse_out.data.msrp_value = msrp
            /\ retail # NoNumber => parse_out.data.retail_value_value = retail

\* ------------------------------------------------------------------------
\* C24: the log follows discovery order
\* ------------------------------------------------------------------------

\* the detail URLs of this run whose page was fetched, in fetch order
StoredFetches == SelectSeq(detail_fetches, LAMBDA f : f.ok)

\* C24: the entries a run appends to index.jsonl follow the entries the
\* log held before, one per detail URL fetched and extracted, in the order
\* in which the listing crawl discovered those URLs; URLs skipped or whose
\* fetch failed are absent.
C24_LogFollowsDiscovery ==
    pc \in {"detail", "done"} =>
        /\ index_jsonl = existing_entries \o new_entries
        /\ Len(StoredFetches) = Len(new_entries)
        /\ \A k \in 1..Len(new_entries) :
              /\ StoredFetches[k].url \in Range(crawl_urls)
              /\ new_entries[k].url
                    \in {r.final_url : r \in Responses(StoredFetches[k].url)}
        /\ \A j, k \in 1..Len(new_entries) :
              j < k => FirstAt(crawl_urls, StoredFetches[j].url)
                          < FirstAt(crawl_urls, StoredFetches[k].url)

\* a second run has appended the entries of both lots, the first lot's
\* before the second's, after the entries the log held
C24_Witness ==
    /\ pc = "done"
    /\ runs = 2
    /\ existing_entries # <<>>
    /\ Len(new_entries) = 2
    /\ new_entries[1].url \in {D1, Moved}
    /\ new_entries[2].url = D2
    /\ detail_urls = <<D1, D2>>

\* ------------------------------------------------------------------------
\* C25: raw snapshots per URL
\* ------------------------------------------------------------------------

\* C25: the raw.html snapshots of two distinct detail URLs are stored at
\* different paths, also when the two pages yield the same item id and the
\* same title slug.
C25_SnapshotPerURL ==
    parse_out.status = "ok" => parse_out.data["a"] # parse_out.data["b"]

\* ------------------------------------------------------------------------
\* C26: the item files are written before the log entry
\* ------------------------------------------------------------------------

\* the item directory a log entry was written for
EntryDir(entry) == OutDir(entry, entry.url, RunYear)

\* the URLs the log holds an entry for, with those stored in this run
LoggedOrStored ==
    ExistingUrls(index_jsonl) \cup {StoredFetches[k].url : k \in 1..Len(new_entries)}

\* C26: in every state, a run interrupted at any step included, every
\* entry of index.jsonl has raw.html, auction.json and auction.csv in its
\* item directory; a run that ends inside the detail loop appends nothing
\* for the item it was at; and a URL is skipped by a resume run only if the
\* log holds it, so an item interrupted before its entry was appended is
\* processed again.
C26_FilesBeforeLog ==
    /\ [](\A i \in 1..Len(index_jsonl) :
             LET files == FilesAt(item_files, EntryDir(index_jsonl[i]))
             IN  /\ files.raw # <<>>
                 /\ files.json # <<>>
                 /\ files.json[1].url = index_jsonl[i].url
                 /\ files.csv # <<>>)
    /\ [](pc = "detail" => existing_urls \subseteq LoggedOrStored)
    /\ [][/\ (pc = "detail" /\ pc' = "crashed") => index_jsonl' = index_jsonl
          /\ (pc = "detail" /\ idx' = idx + 1 /\ detail_fetches' = detail_fetches)
                => (args.resume /\ detail_urls[idx] \in existing_urls)]_vars

\* a run was interrupted between auction.json and auction.csv of its first
\* item: the files written are on disk, the log holds no entry
C26_Witness ==
    /\ pc = "crashed"
    /\ index_jsonl = <<>>
    /\ \E dir \in DOMAIN item_files :
          /\ item_files[dir].raw # <<>>
          /\ item_files[dir].json # <<>>
          /\ item_files[dir].csv = <<>>

\* ------------------------------------------------------------------------
\* C27: the cut comes before the resume filter
\* ------------------------------------------------------------------------

\* C27: in a run with --max-auctions M at most M detail fetches are made,
\* each of a URL among the first M discovered, whatever number of those
\* first M is skipped because the log holds them.
C27_CutBeforeResume ==
    args.max_auctions # 0 =>
        /\ Len(detail_fetches) <= args.max_auctions
        /\ \A i \in 1..Len(detail_fetches) :
              /\ detail_fetches[i].url \in Range(crawl_urls)
              /\ FirstAt(dedupe_preserve(crawl_urls), detail_fetches[i].url)
                    <= args.max_auctions

\* a resume run with --max-auctions 1 has ended: the first of the two lots
\* discovered was skipped, the second was not fetched
C27_Witness ==
    /\ pc = "done"
    /\ args.resume
    /\ args.max_auctions = 1
    /\ dedupe_preserve(crawl_urls) = <<D1, D2>>
    /\ D1 \in existing_urls
    /\ detail_fetches = <<>>

\* ------------------------------------------------------------------------
\* C28: a failed detail fetch leaves the store untouched
\* ------------------------------------------------------------------------

\* the lines of scrape.log that report a failed fetch of a detail URL
DetailFailureLines(url) ==
    SelectSeq(scrape_log, LAMBDA l : l = [kind |-> "detail_fetch_failed", url |-> url])

\* C28: a detail fetch that fails appends nothing to index.jsonl and writes
\* no item file, appends one detail_fetch_failed line naming the URL to
\* scrape.log, and does not add the URL to the URLs taken as present, so a
\* later resume run attempts it again.
C28_FailedFetchInert ==
    [][(/\ Len(detail_fetches') = Len(detail_fetches) + 1
        /\ ~Last(detail_fetches').ok)
       => /\ index_jsonl' = index_jsonl
          /\ item_files' = item_files
          /\ index_csv' = index_csv
          /\ new_entries' = new_entries
          /\ existing_urls' = existing_urls
          /\ scrape_log' = Append(scrape_log, [kind |-> "detail_fetch_failed",
                                               url |-> Last(detail_fetches').url])
          /\ pc' = "detail"]_vars

\* the fetch of the first lot failed in a first run and was attempted, and
\* failed, again in a second run given --resume
C28_Witness ==
    /\ runs = 2
    /\ args.resume
    /\ pc = "done"
    /\ Len(DetailFailureLines(D1)) = 2
    /\ D1 \notin existing_urls
    /\ index_jsonl = <<>>
    /\ item_files = EmptyDict

\* ------------------------------------------------------------------------
\* C29: the quickbidz run log
\* ------------------------------------------------------------------------

\* C29: the run log is one header line followed by one data row per
\* completed run: the header is written only when the file is missing or
\* empty.
C29_OneHeader ==
    qb_out.log # <<>> =>
        /\ qb_out.log[1].line = "header"
        /\ \A i \in 2..Len(qb_out.log) : qb_out.log[i].line = "row"

\* ------------------------------------------------------------------------
\* C30: the order-page walk
\* ------------------------------------------------------------------------

\* the answer to the i-th request ends the walk: not a 200, or a login URL
StopsWalk(i) ==
    LET resp == fp_in.server[fp_requests[i]]
    IN  resp.status_code # 200 \/ IsLoginURL(resp.url)

\* C30: fetch_pages ends for every chain of next links, those that lead
\* back to a URL already requested included; it requests no URL twice,
\* collects at most max_pages pages when max_pages > 0, and ends without
\* collecting the page at the first answer that is not a 200 or that came
\* from a login or sign-in URL.
C30_WalkTerminates ==
    /\ [](\A i, j \in 1..Len(fp_requests) :
             i # j => fp_requests[i] # fp_requests[j])
    /\ [](fp_in.max_pages > 0 => Len(fp_pages) <= fp_in.max_pages)
    /\ [](\A i \in 1..Len(fp_requests) :
             StopsWalk(i) => /\ i = Len(fp_requests)
                             /\ fp_pc \in {"returned", "raised"}
                             /\ Len(fp_pages) = i - 1)
    /\ [](\A k \in 1..Len(fp_pages) :
             /\ fp_pages[k].url = fp_in.server[fp_requests[k]].url
             /\ ~StopsWalk(k))
    /\ (fp_pc = "loop" ~> fp_pc \in {"returned", "raised"})

\* a walk without page limit over three pages whose last links back to the
\* first has returned the three pages
C30_Witness ==
    /\ fp_pc = "returned"
    /\ fp_in.max_pages = 0
    /\ fp_requests = <<O1, O2, O3>>
    /\ fp_url = O1
    /\ Len(fp_pages) = 3

====
